---- MODULE Spec2Model ----
(***************************************************************************)
(* Model of the Spanish bank phone extractor: the bank registry lookup,    *)
(* the IBAN-gated phone extraction (regular expressions evaluated with     *)
(* Python's leftmost, greedy, backtracking semantics on character          *)
(* sequences), the line oriented scans and the background workers of the   *)
(* GUI.  A string is a sequence of one-character strings.                  *)
(***************************************************************************)
EXTENDS Integers, Sequences, FiniteSets, TLC

(***************************************************************************)
(* Bounds of the model.                                                    *)
(***************************************************************************)
MaxSegs == 3

MaxLines == 3

MaxChunk == 2

MaxRuns == 2

MaxReadChunks == 1

MaxPrefixLen == 6

MaxIdentSegs == 2

MaxCalls == 2

MaxExtraRows == 2

\* estimate_file_size: line counts differ from 0, from the sample limit and
\* from its multiples by at most MaxSmallLines; a line has at most
\* MaxLineBytes bytes.
MaxSmallLines == 4
MaxLineBytes == 3

(***************************************************************************)
(* Characters and Python string primitives.                                *)
(***************************************************************************)
Digits == {"0", "1", "2", "3", "4", "5", "6", "7", "8", "9"}

Letters == {"E", "S", "e", "s", "x"}

\* \s of the re module, as far as the inputs of the model go.
Spaces == {" ", "\t", "\n", "\r"}

\* \w of the re module: letters, digits and the underscore.
WordChars == Digits \cup Letters \cup {"_"}

Min(a, b) == IF a < b THEN a ELSE b

Max(a, b) == IF a < b THEN b ELSE a

\* Python's s[a:b] for 0 <= a <= b: the bounds are clamped to the string.
Slice(s, a, b) == SubSeq(s, a + 1, Min(b, Len(s)))

\* Python's s[a:].
SliceFrom(s, a) == SubSeq(s, a + 1, Len(s))

\* Python's s.replace(c, '') for a one-character c.
Remove(s, c) == SelectSeq(s, LAMBDA x : x # c)

\* Python's s.startswith('ES') (case sensitive).
StartsWithES(s) == Len(s) >= 2 /\ s[1] = "E" /\ s[2] = "S"

\* Python's s.isdigit(): non-empty and every character a digit.
IsDigit(s) == s # <<>> /\ \A i \in 1..Len(s) : s[i] \in Digits

\* Python's s.strip(): leading and trailing whitespace removed.
RECURSIVE LStrip(_)
LStrip(s) ==
  IF s # <<>> /\ Head(s) \in Spaces THEN LStrip(Tail(s)) ELSE s

RECURSIVE RStrip(_)
RStrip(s) ==
  IF s # <<>> /\ s[Len(s)] \in Spaces THEN RStrip(SubSeq(s, 1, Len(s) - 1)) ELSE s

Strip(s) == RStrip(LStrip(s))

\* Python's None, as a value comparable with strings.
None == <<"<None>">>

(***************************************************************************)
(* Regular expressions.  A pattern is a sequence of items: a character     *)
(* class with a greedy repetition {lo,hi} (star: no upper limit), or the   *)
(* zero-width assertion \b.                                                *)
(***************************************************************************)
Rep(cls, lo, hi) == [kind |-> "cls", cls |-> cls, lo |-> lo, hi |-> hi, star |-> FALSE]

One(cls) == Rep(cls, 1, 1)

Opt(cls) == Rep(cls, 0, 1)

Star(cls) == [kind |-> "cls", cls |-> cls, lo |-> 0, hi |-> 0, star |-> TRUE]

WordBoundary == [kind |-> "wb", cls |-> {}, lo |-> 0, hi |-> 0, star |-> FALSE]

\* The assertion $ (without re.MULTILINE).
EndOfString == [kind |-> "end", cls |-> {}, lo |-> 0, hi |-> 0, star |-> FALSE]

\* $ at position p: at the end of the string, or before a line break that is
\* the last character of the string.
IsEnd(t, p) == p = Len(t) + 1 \/ (p = Len(t) /\ t[p] = "\n")

\* \b at position p (the next character to read is t[p]).
IsBoundary(t, p) ==
  LET before == p > 1 /\ t[p - 1] \in WordChars
      after == p <= Len(t) /\ t[p] \in WordChars
  IN before # after

\* The number of characters of cls in a row from t[p], at most limit.
RECURSIVE Run(_, _, _, _)
Run(t, p, cls, limit) ==
  IF limit = 0 \/ p > Len(t) \/ t[p] \notin cls THEN 0
  ELSE 1 + Run(t, p + 1, cls, limit - 1)

\* re's match of items[k..] at position p: the position after the match, or 0
\* when there is none.  Greedy: the longest repetition is tried first, and a
\* shorter one only when the rest of the pattern fails (backtracking).
RECURSIVE MatchItems(_, _, _, _)
RECURSIVE TryCounts(_, _, _, _, _)
MatchItems(items, k, t, p) ==
  IF k > Len(items) THEN p
  ELSE LET it == items[k] IN
       IF it.kind = "wb"
       THEN IF IsBoundary(t, p) THEN MatchItems(items, k + 1, t, p) ELSE 0
       ELSE IF it.kind = "end"
       THEN IF IsEnd(t, p) THEN MatchItems(items, k + 1, t, p) ELSE 0
       ELSE LET n == Run(t, p, it.cls, IF it.star THEN Len(t) ELSE it.hi) IN
            IF n < it.lo THEN 0 ELSE TryCounts(items, k, t, p, n)

TryCounts(items, k, t, p, c) ==
  IF c < items[k].lo THEN 0
  ELSE LET r == MatchItems(items, k + 1, t, p + c) IN
       IF r # 0 THEN r ELSE TryCounts(items, k, t, p, c - 1)

\* pattern.findall(t): the non-overlapping matches, scanning left to right.  The
\* scan resumes after each match; a position with no match is stepped over.
RECURSIVE FindFrom(_, _, _)
FindFrom(items, t, p) ==
  LET starts == {q \in p..Len(t) : MatchItems(items, 1, t, q) > q} IN
  IF starts = {} THEN <<>>
  ELSE LET q == CHOOSE x \in starts : \A y \in starts : x <= y
           e == MatchItems(items, 1, t, q)
       IN <<SubSeq(t, q, e - 1)>> \o FindFrom(items, t, e)

FindAll(items, t) == FindFrom(items, t, 1)

(***************************************************************************)
(* The bank registry (bank_registry.py).  The registry is the insertion    *)
(* ordered mapping of the loader, kept as a sequence of records with       *)
(* distinct iban_prefix.                                                   *)
(***************************************************************************)
\* The record _load_banks builds of one CSV row.
BankRecord(row) ==
  [iban_prefix |-> row.code,
   name |-> row.name,
   address |-> row.address,
   entity_code |-> IF Len(row.code) >= 6 THEN SliceFrom(row.code, 2) ELSE row.code]

\* banks[iban_prefix] = record: a new key is appended, a known key keeps its
\* place and takes the new record.
PutBank(bs, rec) ==
  IF \E i \in 1..Len(bs) : bs[i].iban_prefix = rec.iban_prefix
  THEN [i \in 1..Len(bs) |-> IF bs[i].iban_prefix = rec.iban_prefix THEN rec ELSE bs[i]]
  ELSE Append(bs, rec)

\* The loop over the rows, run on the first half of the rows and then on the
\* second (the registry never shrinks, so the second run always happens).
RECURSIVE LoadFrom(_, _)
LoadFrom(bs, rows) ==
  IF rows = <<>> THEN bs
  ELSE IF Len(rows) = 1 THEN PutBank(bs, BankRecord(rows[1]))
  ELSE LET half == Len(rows) \div 2
           loaded == LoadFrom(bs, SubSeq(rows, 1, half))
       IN  IF Len(loaded) >= Len(bs)
             THEN LoadFrom(loaded, SubSeq(rows, half + 1, Len(rows)))
             ELSE loaded

load_banks(rows) == LoadFrom(<<>>, rows)

HasBank(bs, iban_prefix) == \E i \in 1..Len(bs) : bs[i].iban_prefix = iban_prefix

\* self.banks.get(iban_prefix): the record, or None.
get_bank_info(bs, iban_prefix) ==
  IF HasBank(bs, iban_prefix)
  THEN bs[CHOOSE i \in 1..Len(bs) : bs[i].iban_prefix = iban_prefix]
  ELSE None

\* A lookup that derives the entity code from the key without consulting the
\* registry.
get_entity_code_unchecked(bs, iban_prefix) ==
  IF Len(iban_prefix) >= 6 THEN SliceFrom(iban_prefix, 2) ELSE iban_prefix

get_entity_code(bs, iban_prefix) ==
  IF HasBank(bs, iban_prefix) THEN get_bank_info(bs, iban_prefix).entity_code ELSE None

\* A registry whose lookup of an unknown key stores a record for it, as
\* self.banks.setdefault would.
banks_after_call_storing(bs, method, arg) ==
  IF method = "get_bank_info" /\ ~HasBank(bs, arg)
  THEN PutBank(bs, BankRecord([code |-> arg, name |-> <<>>, address |-> <<>>]))
  ELSE bs

\* self.banks once a method of the registry or of the extractor has returned:
\* none of them assigns to self.banks or to an entry of it.
banks_after_call(bs, method, arg) == bs

DigitChar(n) == <<"0", "1", "2", "3", "4", "5", "6", "7", "8", "9">>[n + 1]

\* 'ES' + k written with 4 digits.
CodeOf(k) ==
  <<"E", "S", DigitChar((k \div 1000) % 10), DigitChar((k \div 100) % 10),
    DigitChar((k \div 10) % 10), DigitChar(k % 10)>>

\* The columns _load_banks reads with row[...]: 'CODIGO EUROPEO', 'NOMBRE' and
\* 'DIRECCION' (written here without their accents).
RequiredColumns == {"CODIGO EUROPEO", "NOMBRE", "DIRECCION"}

\* BankRegistry.__init__ on a CSV file: open() fails on an unreadable file,
\* and row[column] fails on the first data row when the header lacks the
\* column; either way _load_banks raises RuntimeError and no registry is made.
BankRegistryInit(csv) ==
  IF ~csv.readable THEN [ok |-> FALSE, banks |-> <<>>]
  ELSE IF csv.rows = <<>> THEN [ok |-> TRUE, banks |-> <<>>]
  ELSE IF ~(RequiredColumns \subseteq csv.header)
    THEN [ok |-> FALSE, banks |-> <<>>]
  ELSE [ok |-> TRUE, banks |-> load_banks(csv.rows)]

\* The most pairs search_banks returns.
SearchLimit == 100

UpperCase ==
  <<"A", "B", "C", "D", "E", "F", "G", "H", "I", "J", "K", "L", "M",
    "N", "O", "P", "Q", "R", "S", "T", "U", "V", "W", "X", "Y", "Z">>

LowerCase ==
  <<"a", "b", "c", "d", "e", "f", "g", "h", "i", "j", "k", "l", "m",
    "n", "o", "p", "q", "r", "s", "t", "u", "v", "w", "x", "y", "z">>

\* Python's s.lower().
Lower(s) ==
  [i \in 1..Len(s) |->
     IF \E k \in 1..26 : UpperCase[k] = s[i]
       THEN LowerCase[CHOOSE k \in 1..26 : UpperCase[k] = s[i]]
       ELSE s[i]]

\* Python's needle in hay, for strings.
Contains(hay, needle) ==
  \E p \in 0..(Len(hay) - Len(needle)) :
     SubSeq(hay, p + 1, p + Len(needle)) = needle

\* The loop of search_banks over the registry entries lo..hi, run on the
\* first half of them and then on the second; it is left once SearchLimit
\* pairs are collected.
RECURSIVE SearchFrom(_, _, _, _, _)
SearchFrom(bs, term, lo, hi, matches) ==
  IF lo > hi \/ Len(matches) >= SearchLimit THEN matches
  ELSE IF lo = hi
    THEN IF Contains(Lower(bs[lo].name), term)
           THEN Append(matches, <<bs[lo].iban_prefix, bs[lo].name>>)
           ELSE matches
  ELSE LET mid == (lo + hi) \div 2
       IN  SearchFrom(bs, term, mid + 1, hi,
                      SearchFrom(bs, term, lo, mid, matches))

\* A search that never stops collecting.
search_banks_uncapped(bs, search_term) ==
  IF Strip(search_term) = <<>> THEN <<>>
  ELSE LET term == Strip(Lower(search_term))
       IN  IF Len(term) < 2 THEN <<>>
           ELSE SelectSeq([i \in 1..Len(bs) |-> <<bs[i].iban_prefix, bs[i].name>>],
                          LAMBDA pair : Contains(Lower(pair[2]), term))

search_banks(bs, search_term) ==
  IF Strip(search_term) = <<>> THEN <<>>
  ELSE LET term == Strip(Lower(search_term))
       IN  IF Len(term) < 2 THEN <<>>
           ELSE SearchFrom(bs, term, 1, Len(bs), <<>>)

\* major_banks of get_major_banks: the curated list, in its order (display
\* names without their accents).
major_banks ==
  << <<CodeOf(182), "BBVA (Banco Bilbao Vizcaya Argentaria)">>,
     <<CodeOf(49), "Santander (Banco Santander)">>,
     <<CodeOf(2100), "Caixabank">>,
     <<CodeOf(81), "Sabadell (Banco de Sabadell)">>,
     <<CodeOf(128), "Bankinter">>,
     <<CodeOf(3), "Banco de Depositos">>,
     <<CodeOf(61), "Banca March">>,
     <<CodeOf(188), "Banco Alcala">>,
     <<CodeOf(225), "Banco Cetelem">>,
     <<CodeOf(198), "Banco Cooperativo Espanol">> >>

\* The curated list as it is, whatever the registry holds.
get_major_banks_unfiltered(bs) == major_banks

get_major_banks(bs) ==
  SelectSeq(major_banks, LAMBDA pair : HasBank(bs, pair[1]))

get_all_banks(bs) ==
  [i \in 1..Len(bs) |->
     <<bs[i].iban_prefix, bs[i].name, bs[i].entity_code, bs[i].address>>]

(***************************************************************************)
(* The extractor (extractor.py).                                           *)
(***************************************************************************)
\* The six patterns of _compile_phone_patterns, in their order.
phone_patterns ==
  << \* \+34\s*\d{9}
     <<One({"+"}), One({"3"}), One({"4"}), Star(Spaces), Rep(Digits, 9, 9)>>,
     \* \+34\s*\d{2,3}\s*\d{3}\s*\d{2}\s*\d{2}
     <<One({"+"}), One({"3"}), One({"4"}), Star(Spaces), Rep(Digits, 2, 3),
       Star(Spaces), Rep(Digits, 3, 3), Star(Spaces), Rep(Digits, 2, 2),
       Star(Spaces), Rep(Digits, 2, 2)>>,
     \* \b[6-8]\d{8}\b
     <<WordBoundary, One({"6", "7", "8"}), Rep(Digits, 8, 8), WordBoundary>>,
     \* \b[6-8]\d{2}\s*\d{3}\s*\d{2}\s*\d{2}\b
     <<WordBoundary, One({"6", "7", "8"}), Rep(Digits, 2, 2), Star(Spaces),
       Rep(Digits, 3, 3), Star(Spaces), Rep(Digits, 2, 2), Star(Spaces),
       Rep(Digits, 2, 2), WordBoundary>>,
     \* \b8\d{8}\b
     <<WordBoundary, One({"8"}), Rep(Digits, 8, 8), WordBoundary>>,
     \* \b8\d{2}\s*\d{3}\s*\d{2}\s*\d{2}\b
     <<WordBoundary, One({"8"}), Rep(Digits, 2, 2), Star(Spaces),
       Rep(Digits, 3, 3), Star(Spaces), Rep(Digits, 2, 2), Star(Spaces),
       Rep(Digits, 2, 2), WordBoundary>> >>

\* ES\d{2}\s?\d{4}\s?\d{4}\s?\d{4}\s?\d{4}\s?\d{4} with re.IGNORECASE.
iban_pattern ==
  <<One({"E", "e"}), One({"S", "s"}), Rep(Digits, 2, 2),
    Opt(Spaces), Rep(Digits, 4, 4), Opt(Spaces), Rep(Digits, 4, 4),
    Opt(Spaces), Rep(Digits, 4, 4), Opt(Spaces), Rep(Digits, 4, 4),
    Opt(Spaces), Rep(Digits, 4, 4)>>

\* The pattern of validate_iban_format; re.match tries it at the start of the
\* string only, which is all that ^ asks for.
validate_pattern ==
  <<One({"E"}), One({"S"}), Rep(Digits, 2, 2),
    Star(Spaces), Rep(Digits, 4, 4), Star(Spaces), Rep(Digits, 4, 4),
    Star(Spaces), Rep(Digits, 4, 4), Star(Spaces), Rep(Digits, 4, 4),
    Star(Spaces), Rep(Digits, 4, 4), EndOfString>>

\* bool(re.match(pattern, iban.replace(' ', ''))).
validate_iban_format(iban) ==
  MatchItems(validate_pattern, 1, Remove(iban, " "), 1) # 0

\* extract_entity_code_from_iban: None unless the string without its spaces
\* starts with 'ES' and has 6 characters or more, else its slice [4:8].
extract_entity_code_from_iban(iban) ==
  LET clean_iban == Remove(iban, " ") IN
  IF ~StartsWithES(clean_iban) \/ Len(clean_iban) < 6 THEN None
  ELSE Slice(clean_iban, 4, 8)

\* The numbers of estimate_file_size.
SampleLimit == 10000
LargeFileBytes == 10 * 1024 * 1024
ChunkFloor == 1000
ChunkCeiling == 5000
ChunkDivisor == 100

\* os.path.getsize of a file of f.lines lines of f.line_bytes bytes each.
getsize(f) == f.lines * f.line_bytes

\* The counting loop: line_count grows by one per line read, and the loop is
\* left at the end of the file or as soon as line_count exceeds the limit.
CountedLines(f) == Min(f.lines, SampleLimit + 1)

\* The dictionary estimate_file_size returns; file_size_mb is the quotient
\* file_size / (1024 * 1024), kept as numerator and denominator.
FileStatistics(file_size, estimated_lines) ==
  [file_size_bytes |-> file_size,
   file_size_mb |-> <<file_size, 1024 * 1024>>,
   estimated_lines |-> estimated_lines,
   is_large_file |-> file_size > LargeFileBytes,
   recommended_chunk_size |->
     Min(ChunkCeiling, Max(ChunkFloor, estimated_lines \div ChunkDivisor))]

\* What follows the with block: file is closed by then, so file.tell() raises
\* ValueError, which the except clause turns into RuntimeError.
AfterCounting(file_size, line_count) ==
  IF line_count = SampleLimit
  THEN [raised |-> "RuntimeError", cause |-> "ValueError"]
  ELSE [returned |-> FileStatistics(file_size, line_count)]

\* normalize_iban_prefix that leaves the spaces in.
normalize_keeps_spaces(iban_prefix) ==
  LET clean_prefix == iban_prefix IN
  IF StartsWithES(clean_prefix) /\ Len(clean_prefix) > 2
  THEN IF Len(clean_prefix) = 6 /\ IsDigit(Slice(clean_prefix, 2, 6))
       THEN clean_prefix
       ELSE IF Len(clean_prefix) >= 6
            THEN <<"E", "S">> \o Slice(clean_prefix, 4, 8)
            ELSE clean_prefix
  ELSE clean_prefix

\* normalize_iban_prefix taking the four characters after the country code.
normalize_slices_after_country(iban_prefix) ==
  LET clean_prefix == Remove(iban_prefix, " ") IN
  IF StartsWithES(clean_prefix) /\ Len(clean_prefix) > 2
  THEN IF Len(clean_prefix) = 6 /\ IsDigit(Slice(clean_prefix, 2, 6))
       THEN clean_prefix
       ELSE IF Len(clean_prefix) >= 6
            THEN <<"E", "S">> \o Slice(clean_prefix, 2, 6)
            ELSE clean_prefix
  ELSE clean_prefix

\* normalize_iban_prefix without its test for an already normalized prefix.
normalize_always_slices(iban_prefix) ==
  LET clean_prefix == Remove(iban_prefix, " ") IN
  IF StartsWithES(clean_prefix) /\ Len(clean_prefix) >= 6
  THEN <<"E", "S">> \o Slice(clean_prefix, 4, 8)
  ELSE clean_prefix

normalize_iban_prefix(iban_prefix) ==
  LET clean_prefix == Remove(iban_prefix, " ") IN
  IF StartsWithES(clean_prefix) /\ Len(clean_prefix) > 2
  THEN IF Len(clean_prefix) = 6 /\ IsDigit(Slice(clean_prefix, 2, 6))
       THEN clean_prefix
       ELSE IF Len(clean_prefix) >= 6
            THEN <<"E", "S">> \o Slice(clean_prefix, 4, 8)
            ELSE clean_prefix
  ELSE clean_prefix

\* ibans_in_line of extract_phone_numbers.
IbansInLine(text) == FindAll(iban_pattern, Remove(text, "-"))

\* The test the loop over ibans_in_line makes of one match.
IbanMatches(iban, entity_code) ==
  LET clean_iban == Remove(iban, " ") IN
  /\ Len(clean_iban) >= 8
  /\ StartsWithES(clean_iban)
  /\ Slice(clean_iban, 4, 8) = entity_code

\* A gate that accepts a line as soon as it holds any IBAN.
FoundMatchAnyIban(text, entity_code) == IbansInLine(text) # <<>>

\* found_match of extract_phone_numbers.
FoundMatch(text, entity_code) ==
  LET ibans_in_line == IbansInLine(text) IN
  \E i \in 1..Len(ibans_in_line) : IbanMatches(ibans_in_line[i], entity_code)

\* phone_numbers of extract_phone_numbers: the findall lists of the patterns,
\* one after the other.
RECURSIVE MatchesFrom(_, _, _)
MatchesFrom(patterns, k, text) ==
  IF k > Len(patterns) THEN <<>>
  ELSE FindAll(patterns[k], text) \o MatchesFrom(patterns, k + 1, text)

PhoneMatches(text) == MatchesFrom(phone_patterns, 1, text)

\* unique_phones: the first occurrence of each string is kept.
RECURSIVE UniqueFrom(_, _, _)
UniqueFrom(phone_numbers, k, unique_phones) ==
  IF k > Len(phone_numbers) THEN unique_phones
  ELSE UniqueFrom(phone_numbers, k + 1,
         IF \E j \in 1..Len(unique_phones) : unique_phones[j] = phone_numbers[k]
         THEN unique_phones
         ELSE Append(unique_phones, phone_numbers[k]))

\* The match list returned as it is.
UniqueKeepsAll(phone_numbers) == phone_numbers

Unique(phone_numbers) == UniqueFrom(phone_numbers, 1, <<>>)

extract_phone_numbers(bs, iban_prefix, text) ==
  LET normalized_prefix == normalize_iban_prefix(iban_prefix)
      entity_code == get_entity_code(bs, normalized_prefix)
  IN IF entity_code = None \/ entity_code = <<>> THEN <<>>
     ELSE IF ~FoundMatch(text, entity_code) THEN <<>>
     ELSE Unique(PhoneMatches(text))

\* The positions of the line breaks of s, in increasing order.
NewlinePositions(s) ==
  LET nl == {i \in 1..Len(s) : s[i] = "\n"} IN
  [k \in 1..Cardinality(nl) |->
     CHOOSE i \in nl : Cardinality({j \in nl : j < i}) = k - 1]

\* Python's s.split('\n'): the pieces between the line breaks; there is one
\* piece more than there are line breaks.
SplitLines(s) ==
  LET nl == NewlinePositions(s)
      n == Len(nl)
  IN [k \in 1..(n + 1) |->
        SubSeq(s, IF k = 1 THEN 1 ELSE nl[k - 1] + 1,
                  IF k = n + 1 THEN Len(s) ELSE nl[k] - 1)]

\* Iterating over a text file: each line with its line break; what follows the
\* last line break is a line only when it is not empty.
FileLines(s) ==
  LET nl == NewlinePositions(s)
      n == Len(nl)
      last == IF n = 0 THEN 0 ELSE nl[n]
      whole == [k \in 1..n |-> SubSeq(s, IF k = 1 THEN 1 ELSE nl[k - 1] + 1, nl[k])]
  IN IF last < Len(s) THEN Append(whole, SubSeq(s, last + 1, Len(s))) ELSE whole

\* The result record of one line.
MatchLine(line_number, line, phones) ==
  [line_number |-> line_number, text |-> line,
   phone_numbers |-> phones, phone_count |-> Len(phones)]

\* The loop of process_text over lines[i..], i counted from 1.
RECURSIVE ProcessLines(_, _, _, _)
ProcessLines(bs, prefix, lines, i) ==
  IF i > Len(lines) THEN <<>>
  ELSE LET line == Strip(lines[i])
           phones == IF line # <<>> THEN extract_phone_numbers(bs, prefix, line) ELSE <<>>
       IN (IF phones # <<>> THEN <<MatchLine(i, line, phones)>> ELSE <<>>)
          \o ProcessLines(bs, prefix, lines, i + 1)

\* A process_text that numbers the lines as enumerate does, from 0.
RECURSIVE ProcessLinesFromZero(_, _, _, _)
ProcessLinesFromZero(bs, prefix, lines, i) ==
  IF i > Len(lines) THEN <<>>
  ELSE LET line == Strip(lines[i])
           phones == IF line # <<>> THEN extract_phone_numbers(bs, prefix, line) ELSE <<>>
       IN (IF phones # <<>> THEN <<MatchLine(i - 1, line, phones)>> ELSE <<>>)
          \o ProcessLinesFromZero(bs, prefix, lines, i + 1)

process_text_from_zero(bs, prefix, txt) ==
  ProcessLinesFromZero(bs, prefix, SplitLines(txt), 1)

process_text(bs, prefix, txt) == ProcessLines(bs, prefix, SplitLines(txt), 1)

\* _process_chunk: chunk_lines holds pairs <<line_num, stripped line>>.
RECURSIVE ChunkFrom(_, _, _, _)
ChunkFrom(bs, prefix, chunk, k) ==
  IF k > Len(chunk) THEN <<>>
  ELSE LET line_num == chunk[k][1]
           line == chunk[k][2]
           phones == IF line # <<>> THEN extract_phone_numbers(bs, prefix, line) ELSE <<>>
       IN (IF phones # <<>> THEN <<MatchLine(line_num, line, phones)>> ELSE <<>>)
          \o ChunkFrom(bs, prefix, chunk, k + 1)

\* A _process_chunk that numbers the lines within the chunk.
RECURSIVE ChunkLocalFrom(_, _, _, _)
ChunkLocalFrom(bs, prefix, chunk, k) ==
  IF k > Len(chunk) THEN <<>>
  ELSE LET line == chunk[k][2]
           phones == IF line # <<>> THEN extract_phone_numbers(bs, prefix, line) ELSE <<>>
       IN (IF phones # <<>> THEN <<MatchLine(k, line, phones)>> ELSE <<>>)
          \o ChunkLocalFrom(bs, prefix, chunk, k + 1)

process_chunk_local_numbers(bs, prefix, chunk) == ChunkLocalFrom(bs, prefix, chunk, 1)

process_chunk(bs, prefix, chunk) == ChunkFrom(bs, prefix, chunk, 1)

\* process_file on a readable file: process_text on what file.read() gives.
process_file(bs, prefix, txt) == process_text(bs, prefix, txt)

\* The loop of process_large_file once n lines were read: the next size lines,
\* numbered from n + 1 and stripped, go to _process_chunk; the lines left over
\* at the end of the file are the last chunk.
RECURSIVE LargeFrom(_, _, _, _, _)
LargeFrom(bs, prefix, lines, size, n) ==
  IF n >= Len(lines) THEN <<>>
  ELSE LET m == Min(n + size, Len(lines))
           chunk == [k \in 1..(m - n) |-> <<n + k, Strip(lines[n + k])>>]
       IN  process_chunk(bs, prefix, chunk) \o LargeFrom(bs, prefix, lines, size, m)

\* process_large_file on a readable file.
process_large_file(bs, prefix, txt, size) ==
  LargeFrom(bs, prefix, FileLines(txt), size, 0)


(***************************************************************************)
(* Inputs of the model: registries, bank identifiers and texts.  A text is *)
(* made of at most MaxSegs fragments joined by one separator.              *)
(***************************************************************************)
IbanCaixaSpaced ==
  <<"E", "S", "9", "1", " ", "2", "1", "0", "0", " ", "0", "0", "0", "1",
    " ", "2", "3", "4", "5", " ", "6", "7", "8", "9", " ", "0", "1", "2",
    "3">>

IbanCaixaCompact ==
  <<"E", "S", "9", "1", "2", "1", "0", "0", "0", "4", "1", "8", "4", "5",
    "0", "2", "0", "0", "0", "5", "1", "3", "3", "2">>

IbanCaixaHyphens ==
  <<"E", "S", "9", "1", "-", "2", "1", "0", "0", "-", "0", "4", "1", "8",
    "-", "4", "5", "0", "2", "-", "0", "0", "0", "5", "-", "1", "3", "3",
    "2">>

IbanCaixaLower ==
  <<"e", "s", "9", "1", " ", "2", "1", "0", "0", " ", "0", "0", "0", "1",
    " ", "2", "3", "4", "5", " ", "6", "7", "8", "9", " ", "0", "1", "2",
    "3">>

IbanSantanderSpaced ==
  <<"E", "S", "9", "1", " ", "0", "0", "4", "9", " ", "0", "0", "0", "1",
    " ", "2", "3", "4", "5", " ", "6", "7", "8", "9", " ", "0", "1", "2",
    "3">>

PhoneCompact ==
  <<"6", "1", "2", "3", "4", "5", "6", "7", "8">>

PhonePlus34 ==
  <<"+", "3", "4", " ", "6", "1", "2", "3", "4", "5", "6", "7", "8">>

PhoneGrouped ==
  <<"6", "1", "2", " ", "3", "4", "5", " ", "6", "7", " ", "8", "9">>

PhoneNine ==
  <<"9", "1", "2", "3", "4", "5", "6", "7", "8">>

KeyCaixa ==
  <<"E", "S", "2", "1", "0", "0">>

KeySantander ==
  <<"E", "S", "0", "0", "4", "9">>

KeyAbsent ==
  <<"E", "S", "9", "9", "9", "9">>

PartialCaixa ==
  <<"E", "S", "9", "1", " ", "2", "1", "0", "0">>

BareCode ==
  <<"2", "1", "0", "0">>

Row(code, name) == [code |-> code, name |-> name, address |-> ""]

\* The CSV sources the registry is loaded from.
RegistrySources ==
  { <<Row(KeyCaixa, "Caixabank"), Row(KeySantander, "Banco Santander")>> }

BankIds == {KeyCaixa, KeyAbsent, IbanCaixaCompact, BareCode}

TextPool ==
  {IbanCaixaSpaced, IbanCaixaHyphens, IbanCaixaLower, IbanSantanderSpaced,
   PhoneCompact, PhonePlus34, PhoneGrouped}

Separators == {<<>>, <<" ">>}

SeqsUpTo(S, n) == UNION {[1..k -> S] : k \in 0..n}

RECURSIVE Join(_, _)
Join(segs, sep) ==
  IF segs = <<>> THEN <<>>
  ELSE IF Len(segs) = 1 THEN segs[1]
  ELSE segs[1] \o sep \o Join(Tail(segs), sep)

Texts == {Join(segs, sep) : segs \in SeqsUpTo(TextPool, MaxSegs), sep \in Separators}

\* The lines of the scanned texts and files: an empty line, a line of
\* whitespace, a padded line with a CaixaBank IBAN and a phone, and a line
\* with a phone and no IBAN.
LinePool ==
  { <<>>,
    <<" ", "\t">>,
    <<" ">> \o IbanCaixaSpaced \o <<" ">> \o PhoneCompact \o <<" ">>,
    PhoneCompact }

\* A content of at most MaxLines lines, the last one with or without its
\* line break.
Contents ==
  {Join(ls, <<"\n">>) \o end :
     ls \in SeqsUpTo(LinePool, MaxLines), end \in {<<>>, <<"\n">>}}

FilePath == "clientes.txt"

\* Bank names, as the characters search_banks looks at.
NameSantander ==
  <<"B", "a", "n", "c", "o", " ", "S", "a", "n", "t", "a", "n", "d", "e", "r">>

NameCaixa == <<"C", "a", "i", "x", "a", "b", "a", "n", "k">>

NameCajaRural == <<"C", "A", "J", "A", " ", "R", "U", "R", "A", "L">>

CsvRow(code, name) == [code |-> code, name |-> name, address |-> <<>>]

\* The rows of a registry of more than SearchLimit banks: the second is
\* CaixaBank, every other one a 'Banco Santander'.
ManyRows ==
  [k \in 1..(SearchLimit + MaxExtraRows) |->
     CsvRow(CodeOf(k), IF k = 2 THEN NameCaixa ELSE NameSantander)]

Csv(header, rows) == [readable |-> TRUE, header |-> header, rows |-> rows]

NoCsv == [readable |-> FALSE, header |-> {}, rows |-> <<>>]

\* The row lists of the CSV files: none, two banks, three banks of which the
\* third repeats the code of the first, a registry of many banks, and rows
\* whose code is not 'ES' + 4 digits.
RowLists ==
  { <<>>,
    <<CsvRow(KeyCaixa, NameCaixa), CsvRow(KeySantander, NameSantander)>>,
    <<CsvRow(KeySantander, NameSantander), CsvRow(KeyCaixa, NameCaixa),
      CsvRow(KeySantander, NameCajaRural)>>,
    ManyRows,
    <<CsvRow(KeyCaixa, NameCaixa), CsvRow(SubSeq(KeySantander, 1, 5), NameSantander)>>,
    <<CsvRow(IbanCaixaCompact, NameCaixa), CsvRow(BareCode, NameCajaRural)>> }

\* The headers of the CSV files: complete, with a further column, and with
\* one required column missing.
Headers ==
  {RequiredColumns, RequiredColumns \cup {"LEI"}}
    \cup {RequiredColumns \ {c} : c \in RequiredColumns}

CsvFiles == {Csv(h, rows) : h \in Headers, rows \in RowLists} \cup {NoCsv}

\* The texts and file contents handed to the extractor of a registry.
CallTexts ==
  { IbanCaixaSpaced \o <<" ">> \o PhoneCompact,
    IbanSantanderSpaced \o <<" ">> \o PhonePlus34,
    PhoneCompact }

CallContents ==
  { Join(<<PhoneCompact, <<" ">> \o IbanCaixaSpaced \o <<" ">> \o PhoneCompact,
           <<>>, IbanCaixaSpaced \o <<" ">> \o PhoneGrouped>>, <<"\n">>),
    IbanSantanderSpaced \o <<" ">> \o PhoneCompact \o <<"\n">> }

\* The files estimate_file_size is given: their number of lines and the bytes
\* of a line.
LineCounts ==
  (0..MaxSmallLines)
    \cup {SampleLimit + d - MaxSmallLines : d \in 0..(2 * MaxSmallLines)}
    \cup {SampleLimit * k + d : k \in 2..(MaxSmallLines + 1), d \in {0, 1}}
    \cup {SampleLimit * ChunkDivisor * k : k \in 1..(MaxSmallLines + 2)}

EstimatedFiles ==
  {[lines |-> n, line_bytes |-> w] : n \in LineCounts, w \in 1..MaxLineBytes}

\* The terms searched for.
SearchTerms ==
  { <<>>, <<" ">>, <<"a">>, <<" ", "a", " ">>, <<"a", "n">>,
    <<"B", "A", "N", "C", "O">>, <<" ", "b", "a", "n", "c", "o", "\t">>,
    <<"c", "a", "j", "a">>, <<"o", " ", "s">>, <<"z", "z">>,
    <<"s", "a", "n", "t", "a", "n", "d", "e", "r">> }

\* The characters bank identifiers are drawn from.
PrefixChars == {"E", "S", "e", "0", "7", " "}

\* A foreign IBAN.
IbanFrench ==
  <<"F", "R", "7", "6", "3", "0", "0", "0", "6", "0", "0", "0", "0", "1",
    "1", "2", "3", "4", "5", "6", "7", "8", "9", "0", "1", "8", "9">>

\* Longer identifiers: full and partial IBANs.
SampleIdentifiers ==
  {IbanCaixaSpaced, IbanCaixaCompact, IbanCaixaLower, IbanSantanderSpaced,
   IbanFrench, PartialCaixa, SubSeq(IbanCaixaCompact, 1, 7)}

\* '+34 912345678': a national number that begins with 9, after the prefix.
PhonePlus34Nine == <<"+", "3", "4", " ">> \o PhoneNine

\* A full IBAN of a bank the registry does not hold.
IbanAbsentCompact ==
  <<"E", "S", "9", "1">> \o SliceFrom(KeyAbsent, 2)
    \o SliceFrom(IbanCaixaCompact, 8)

\* Full IBANs given as bank identifiers.
IbanIdentifiers ==
  {IbanCaixaSpaced, IbanCaixaCompact, IbanSantanderSpaced, IbanAbsentCompact}

\* The texts scanned for a bank given by a full IBAN: up to MaxIdentSegs
\* IBANs and phones separated by a space.
IdentPool ==
  {IbanCaixaSpaced, IbanSantanderSpaced, PhoneCompact, PhonePlus34,
   PhoneNine, PhonePlus34Nine}

IdentTexts == {Join(segs, <<" ">>) : segs \in SeqsUpTo(IdentPool, MaxIdentSegs)}

\* Every identifier of at most MaxPrefixLen characters, and the longer ones.
PrefixInputs == SeqsUpTo(PrefixChars, MaxPrefixLen) \cup SampleIdentifiers

\* The head and the five digit groups of an IBAN.
SampleGroups ==
  << <<"E", "S", "9", "1">>, <<"2", "1", "0", "0">>, <<"0", "0", "0", "1">>,
     <<"2", "3", "4", "5">>, <<"6", "7", "8", "9">>, <<"0", "1", "2", "3">> >>

\* What stands between two groups: nothing, a space, two spaces, a tab.
GapPool == {<<>>, <<" ">>, <<" ", " ">>, <<"\t">>}

\* The groups with gaps[k] written after the k-th of them.
RECURSIVE WithGaps(_, _, _)
WithGaps(groups, gaps, k) ==
  IF k = Len(groups) THEN groups[k]
  ELSE groups[k] \o gaps[k] \o WithGaps(groups, gaps, k + 1)

\* Strings shorter than an IBAN: a registry key, 'ES' + check digits + 1, 2,
\* and 4 digits of the entity code, a head of 5 characters, and letters where
\* the entity code stands.
ShortIbans ==
  { KeyCaixa, PartialCaixa,
    <<"E", "S", "9", "1", "2">>,
    <<"E", "S", "9", "1", " ", "2", "1">>,
    <<"E", "S", "9", "1", "2", "1", "0">>,
    <<"E", "S", "x", "x", " ", "x", "e", "s", "x">>,
    <<"F", "R", "7", "6", "3", "0", "0", "0">> }

\* The strings validated: the sample IBAN with every choice of gaps; with a
\* character before or after it; a French IBAN; a lower-case country code;
\* spaces that cut the head or a group; groups of 3 and 5 digits; a digit too
\* few and a digit too many.
ValidateInputs ==
  {WithGaps(SampleGroups, gaps, 1) : gaps \in [1..5 -> GapPool]}
    \cup {pre \o IbanCaixaSpaced \o post :
            pre \in {<<>>, <<" ">>, <<"x">>},
            post \in {<<>>, <<" ">>, <<"\n">>, <<"x">>, <<"0">>}}
    \cup { IbanCaixaCompact, IbanFrench, IbanCaixaLower, IbanCaixaHyphens,
           <<"E", " ", "S">> \o SliceFrom(IbanCaixaSpaced, 2),
           <<"E", "S", "9", " ", "1">> \o SliceFrom(IbanCaixaSpaced, 4),
           <<"E", "S", "9", "1", " ", "2", "1", " ", "0", "0">>
             \o SliceFrom(IbanCaixaSpaced, 9),
           <<"E", "S", "9", "1", " ", "2", "1", "0", " ", "0", "0", "0", "0", "1">>
             \o SliceFrom(IbanCaixaSpaced, 14),
           SubSeq(IbanCaixaSpaced, 1, Len(IbanCaixaSpaced) - 1),
           SubSeq(IbanCaixaCompact, 1, Len(IbanCaixaCompact) - 1),
           <<>> }
    \cup ShortIbans

\* len(text) above which process_input scans in a ProcessingThread.
AsyncThresholdChars == 50000

\* The file size above which FileLoaderThread reads in chunks.
ChunkedReadBytes == 1024000

\* A text of the GUI: its lines, and its length in characters (the texts that
\* are scanned in the background are longer than their modelled lines).
GuiText(c, n) == [content |-> c, length |-> n]

EmptyText == GuiText(<<>>, 0)

SmallText ==
  GuiText(IbanCaixaSpaced \o <<" ">> \o PhoneCompact,
          Len(IbanCaixaSpaced \o <<" ">> \o PhoneCompact))

LargeText ==
  GuiText(PhoneCompact \o <<"\n">> \o IbanCaixaSpaced \o <<" ">> \o PhonePlus34,
          AsyncThresholdChars + 1)

GuiTexts == {EmptyText, SmallText, LargeText}

\* The files the user can pick: a file read at once and a file read in chunks.
GuiFiles ==
  { [text |-> SmallText, size |-> SmallText.length, chunked |-> FALSE],
    [text |-> LargeText, size |-> ChunkedReadBytes + 1, chunked |-> TRUE] }

NoFile == [text |-> EmptyText, size |-> 0, chunked |-> FALSE]

(***************************************************************************)
(* State.                                                                  *)
(***************************************************************************)
VARIABLES
  banks,          \* BankRegistry.banks of the extractor's registry
  iban_prefix,    \* the bank identifier a call is given
  text,           \* the text a call is given
  xpc,            \* the extractor's caller: "idle", "call", "returned";
                  \* "normalize", "once", "twice" around normalize_iban_prefix
  phone_numbers,  \* the list extract_phone_numbers returned
  normalized,     \* what the calls of normalize_iban_prefix returned, in order
  content,        \* the text of process_text, or the decoded content of the file
  file_path,      \* the path process_file and process_large_file are given
  chunk_size,     \* process_large_file: chunk_size
  progress_callback, \* process_large_file: whether a callback is given
  op,             \* the scan that was called, "none" before the call
  fpc,            \* where the scan is: "idle", "call", "counting", "counted",
                  \* "reading", "returned", "raised"
  total_lines,    \* process_large_file: total_lines
  processed_lines, \* process_large_file: processed_lines
  line_num,       \* process_large_file: the lines read by the second pass
  chunk_lines,    \* process_large_file: chunk_lines
  results,        \* process_large_file: results
  progress_calls, \* the calls made to progress_callback, in order
  returned,       \* the list the scan returned
  raised,         \* the errors the scan raised to its caller
  failure,        \* the read failure that occurred, "none" if none did
  input_text,     \* SpanishBankGUI.input_text (the text area)
  results_table,  \* SpanishBankGUI.results_table (the rows displayed)
  selected_bank_prefix, \* SpanishBankGUI.selected_bank_prefix, None if unset
  process_button, \* process_button.isEnabled()
  file_button,    \* file_button.isEnabled()
  cancel_button,  \* cancel_button.isVisible()
  progress_bar,   \* progress_bar.isVisible()
  workers,        \* the QThread objects created so far, by number
  file_loader,    \* SpanishBankGUI.file_loader: a worker number, 0 if unset
  processing_thread, \* SpanishBankGUI.processing_thread, likewise
  queue,          \* the signals queued for the GUI thread, oldest first
  gpc,            \* the GUI thread: "off", "idle" (main event loop),
                  \* "confirm", "wait_loader", "wait_scan", "info"
  cancel_requested, \* the workers requestInterruption was called on
  csv_file,       \* BankRegistry.csv_file: the CSV file the registry is read from
  rpc,            \* the registry's caller: "off", "construct", "ready", "failed"
  rop,            \* the registry method called last, "none" before any call
  rarg,           \* its argument
  rresult,        \* what it returned
  calls           \* the number of calls made

xvars == <<banks, iban_prefix, text, xpc, phone_numbers, normalized>>

fvars == <<content, file_path, chunk_size, progress_callback, op, fpc,
           total_lines, processed_lines, line_num, chunk_lines, results,
           progress_calls, returned, raised, failure>>

gvars == <<input_text, results_table, selected_bank_prefix, process_button,
           file_button, cancel_button, progress_bar, workers, file_loader,
           processing_thread, queue, gpc, cancel_requested>>

rvars == <<csv_file, rpc, rop, rarg, rresult, calls>>

vars == <<xvars, fvars, gvars, rvars>>

\* No registry call is under way.
RegIdle ==
  /\ csv_file = NoCsv /\ rpc = "off" /\ rop = "none"
  /\ rarg = <<>> /\ rresult = <<>> /\ calls = 0

\* A QThread object that was not created yet.  requested_in records where
\* run() was when requestInterruption was called ("never" if it was not).
NoWorker ==
  [kind |-> "none", state |-> "none", interrupt |-> FALSE, file |-> NoFile,
   txt |-> EmptyText, prefix |-> None, pos |-> 0, content |-> EmptyText,
   results |-> <<>>, requested_in |-> "never"]

\* The window as __init__ leaves it.
GuiStart ==
  /\ input_text = EmptyText /\ results_table = <<>>
  /\ selected_bank_prefix = None
  /\ process_button = FALSE /\ file_button = TRUE
  /\ cancel_button = FALSE /\ progress_bar = FALSE
  /\ workers = [r \in 1..MaxRuns |-> NoWorker]
  /\ file_loader = 0 /\ processing_thread = 0
  /\ queue = <<>> /\ cancel_requested = {}

\* No window is shown.
GuiIdle == GuiStart /\ gpc = "off"

\* No scan is under way.
FileIdle ==
  /\ content = <<>> /\ file_path = "" /\ chunk_size = 0
  /\ progress_callback = FALSE /\ op = "none" /\ fpc = "idle"
  /\ total_lines = 0 /\ processed_lines = 0 /\ line_num = 0
  /\ chunk_lines = <<>> /\ results = <<>> /\ progress_calls = <<>>
  /\ returned = <<>> /\ raised = <<>> /\ failure = "none"

\* No call of extract_phone_numbers is under way.
ExtractIdle ==
  text = <<>> /\ xpc = "idle" /\ phone_numbers = <<>> /\ normalized = <<>>

(***************************************************************************)
(* extract_phone_numbers on one text.                                      *)
(***************************************************************************)
InitExtract ==
  /\ banks \in {load_banks(rows) : rows \in RegistrySources}
  /\ iban_prefix \in BankIds
  /\ text \in Texts
  /\ xpc = "call"
  /\ phone_numbers = <<>>
  /\ normalized = <<>>
  /\ FileIdle
  /\ GuiIdle
  /\ RegIdle

ExtractPhoneNumbers ==
  /\ xpc = "call"
  /\ phone_numbers' = extract_phone_numbers(banks, iban_prefix, text)
  /\ xpc' = "returned"
  /\ UNCHANGED <<banks, iban_prefix, text, normalized, fvars, gvars, rvars>>

Init == InitExtract

Next == ExtractPhoneNumbers

Spec == Init /\ [][Next]_vars

(***************************************************************************)
(* The scans: process_text, process_file and process_large_file.           *)
(***************************************************************************)
InitFile ==
  /\ banks \in {load_banks(rows) : rows \in RegistrySources}
  /\ iban_prefix = KeyCaixa
  /\ ExtractIdle
  /\ content \in Contents
  /\ file_path = FilePath
  /\ chunk_size \in 1..MaxChunk
  /\ progress_callback \in BOOLEAN
  /\ op = "none" /\ fpc = "call"
  /\ total_lines = 0 /\ processed_lines = 0 /\ line_num = 0
  /\ chunk_lines = <<>> /\ results = <<>> /\ progress_calls = <<>>
  /\ returned = <<>> /\ raised = <<>> /\ failure = "none"
  /\ GuiIdle
  /\ RegIdle

\* process_text(iban_prefix, content).
ProcessText ==
  /\ op = "none" /\ fpc = "call"
  /\ op' = "process_text"
  /\ returned' = process_text(banks, iban_prefix, content)
  /\ fpc' = "returned"
  /\ UNCHANGED <<xvars, rvars, gvars, content, file_path, chunk_size, progress_callback,
                 total_lines, processed_lines, line_num, chunk_lines, results,
                 progress_calls, raised, failure>>

\* A handler that gives the caller what was collected before the failure.
OnReadFailureKeepsResults(path, cause, collected) ==
  [fpc |-> "returned", returned |-> collected, raised |-> <<>>]

\* except Exception as e: raise RuntimeError(f"... {file_path}: {e}"): the call
\* ends with one error, made of the path and the cause, and returns nothing.
OnReadFailure(path, cause, collected) ==
  [fpc |-> "raised", returned |-> <<>>,
   raised |-> <<[type |-> "RuntimeError", path |-> path, cause |-> cause]>>]

\* process_file(iban_prefix, file_path): the file is read and process_text runs.
ProcessFile ==
  /\ op = "none" /\ fpc = "call"
  /\ op' = "process_file"
  /\ returned' = process_text(banks, iban_prefix, content)
  /\ fpc' = "returned"
  /\ UNCHANGED <<xvars, rvars, gvars, content, file_path, chunk_size, progress_callback,
                 total_lines, processed_lines, line_num, chunk_lines, results,
                 progress_calls, raised, failure>>

\* process_file: open or read fails.
ProcessFileFails ==
  /\ op = "none" /\ fpc = "call"
  /\ op' = "process_file"
  /\ \E cause \in {"FileNotFoundError", "UnicodeDecodeError"} :
       LET out == OnReadFailure(file_path, cause, <<>>) IN
       /\ failure' = cause
       /\ fpc' = out.fpc /\ returned' = out.returned /\ raised' = out.raised
  /\ UNCHANGED <<xvars, rvars, gvars, content, file_path, chunk_size, progress_callback,
                 total_lines, processed_lines, line_num, chunk_lines, results,
                 progress_calls>>

\* process_large_file is called: the file is opened for the counting pass.
LargeOpen ==
  /\ op = "none" /\ fpc = "call"
  /\ op' = "process_large_file"
  /\ fpc' = "counting"
  /\ UNCHANGED <<xvars, rvars, gvars, content, file_path, chunk_size, progress_callback,
                 total_lines, processed_lines, line_num, chunk_lines, results,
                 progress_calls, returned, raised, failure>>

\* total_lines = sum(1 for _ in file).
LargeCount ==
  /\ op = "process_large_file" /\ fpc = "counting"
  /\ total_lines' = Len(FileLines(content))
  /\ fpc' = "counted"
  /\ UNCHANGED <<xvars, rvars, gvars, content, file_path, chunk_size, progress_callback, op,
                 processed_lines, line_num, chunk_lines, results,
                 progress_calls, returned, raised, failure>>

\* The file is opened for the processing pass.
LargeReopen ==
  /\ op = "process_large_file" /\ fpc = "counted"
  /\ fpc' = "reading"
  /\ UNCHANGED <<xvars, rvars, gvars, content, file_path, chunk_size, progress_callback, op,
                 total_lines, processed_lines, line_num, chunk_lines, results,
                 progress_calls, returned, raised, failure>>

\* processed_lines += chunk_size, whatever the chunk holds.
ProcessedAfterByChunkSize(processed, chunk) == processed + chunk_size

\* processed_lines += len(chunk_lines).
ProcessedAfter(processed, chunk) == processed + Len(chunk)

\* A call progress_callback(progress, processed_lines, total_lines), with what
\* results held when it was made.  progress is (processed / total) * 100, kept
\* as a fraction; total = 0 is the ZeroDivisionError of the division.
ProgressCall(processed, total, res) ==
  [progress |-> [num |-> processed * 100, den |-> total],
   processed_lines |-> processed, total_lines |-> total, results |-> res]

\* One chunk: _process_chunk, results.extend, processed_lines, the callback.
\* The state after it, as a record; raised is set when the division fails.
AfterChunk(chunk) ==
  LET res == results \o process_chunk(banks, iban_prefix, chunk)
      done == ProcessedAfter(processed_lines, chunk)
      divides == ~progress_callback \/ total_lines # 0
  IN [results |-> res,
      processed_lines |-> done,
      zero_division |-> ~divides,
      progress_calls |->
        IF progress_callback /\ divides
        THEN Append(progress_calls, ProgressCall(done, total_lines, res))
        ELSE progress_calls]

\* One iteration of the loop over the file: the line is read, stripped and
\* added to the chunk, and a full chunk is processed.
LargeReadLine ==
  /\ op = "process_large_file" /\ fpc = "reading"
  /\ line_num < Len(FileLines(content))
  /\ LET n == line_num + 1
         chunk == Append(chunk_lines, <<n, Strip(FileLines(content)[n])>>)
     IN /\ line_num' = n
        /\ IF Len(chunk) >= chunk_size
           THEN LET st == AfterChunk(chunk) IN
                /\ results' = st.results
                /\ processed_lines' = st.processed_lines
                /\ progress_calls' = st.progress_calls
                /\ IF st.zero_division
                   THEN LET out == OnReadFailure(file_path, "ZeroDivisionError", st.results) IN
                        /\ fpc' = out.fpc /\ returned' = out.returned
                        /\ raised' = out.raised /\ chunk_lines' = chunk
                   ELSE /\ chunk_lines' = <<>>
                        /\ UNCHANGED <<fpc, returned, raised>>
           ELSE /\ chunk_lines' = chunk
                /\ UNCHANGED <<results, processed_lines, progress_calls, fpc,
                               returned, raised>>
  /\ UNCHANGED <<xvars, rvars, gvars, content, file_path, chunk_size, progress_callback, op,
                 total_lines, failure>>

\* The file is exhausted: the remaining lines are processed and results is
\* returned.
LargeFinish ==
  /\ op = "process_large_file" /\ fpc = "reading"
  /\ line_num = Len(FileLines(content))
  /\ IF chunk_lines # <<>>
     THEN LET st == AfterChunk(chunk_lines) IN
          /\ results' = st.results
          /\ processed_lines' = st.processed_lines
          /\ progress_calls' = st.progress_calls
          /\ IF st.zero_division
             THEN LET out == OnReadFailure(file_path, "ZeroDivisionError", st.results) IN
                  fpc' = out.fpc /\ returned' = out.returned /\ raised' = out.raised
             ELSE fpc' = "returned" /\ returned' = st.results /\ raised' = raised
     ELSE /\ fpc' = "returned" /\ returned' = results
          /\ UNCHANGED <<results, processed_lines, progress_calls, raised>>
  /\ UNCHANGED <<xvars, rvars, gvars, content, file_path, chunk_size, progress_callback, op,
                 total_lines, line_num, chunk_lines, failure>>

\* A read failure of process_large_file: at the first open, in the counting
\* pass, at the second open, or at a read of the processing pass.
LargeReadFailure ==
  /\ op = "process_large_file"
  /\ fpc \in {"counting", "counted", "reading"}
  /\ \E cause \in {"OSError", "UnicodeDecodeError"} :
       LET out == OnReadFailure(file_path, cause, results) IN
       /\ failure' = cause
       /\ fpc' = out.fpc /\ returned' = out.returned /\ raised' = out.raised
  /\ UNCHANGED <<xvars, rvars, gvars, content, file_path, chunk_size, progress_callback, op,
                 total_lines, processed_lines, line_num, chunk_lines, results,
                 progress_calls>>

\* process_large_file: the first open fails.
LargeOpenFails ==
  /\ op = "none" /\ fpc = "call"
  /\ op' = "process_large_file"
  /\ LET out == OnReadFailure(file_path, "FileNotFoundError", results) IN
     /\ failure' = "FileNotFoundError"
     /\ fpc' = out.fpc /\ returned' = out.returned /\ raised' = out.raised
  /\ UNCHANGED <<xvars, rvars, gvars, content, file_path, chunk_size, progress_callback,
                 total_lines, processed_lines, line_num, chunk_lines, results,
                 progress_calls>>

NextFile ==
  \/ ProcessText
  \/ ProcessFile
  \/ ProcessFileFails
  \/ LargeOpen
  \/ LargeOpenFails
  \/ LargeCount
  \/ LargeReopen
  \/ LargeReadLine
  \/ LargeFinish
  \/ LargeReadFailure

SpecFile == InitFile /\ [][NextFile]_vars

GuiRegistry == CHOOSE rows \in RegistrySources : TRUE

(***************************************************************************)
(* normalize_iban_prefix on one identifier, then on its own result.        *)
(***************************************************************************)
InitNorm ==
  /\ banks = load_banks(GuiRegistry)
  /\ iban_prefix \in PrefixInputs
  /\ text = <<>> /\ phone_numbers = <<>> /\ normalized = <<>>
  /\ xpc = "normalize"
  /\ FileIdle
  /\ GuiIdle
  /\ RegIdle

\* normalize_iban_prefix(iban_prefix).
NormalizeIbanPrefix ==
  /\ xpc = "normalize"
  /\ normalized' = <<normalize_iban_prefix(iban_prefix)>>
  /\ xpc' = "once"
  /\ UNCHANGED <<banks, iban_prefix, text, phone_numbers, fvars, gvars, rvars>>

\* normalize_iban_prefix on what the first call returned.
NormalizeAgain ==
  /\ xpc = "once"
  /\ normalized' = Append(normalized, normalize_iban_prefix(normalized[1]))
  /\ xpc' = "twice"
  /\ UNCHANGED <<banks, iban_prefix, text, phone_numbers, fvars, gvars, rvars>>

NextNorm ==
  \/ NormalizeIbanPrefix
  \/ NormalizeAgain

SpecNorm == InitNorm /\ [][NextNorm]_vars

(***************************************************************************)
(* extract_phone_numbers and process_text for a bank given by a full IBAN. *)
(***************************************************************************)
InitIdent ==
  /\ banks = load_banks(GuiRegistry)
  /\ iban_prefix \in IbanIdentifiers
  /\ text \in IdentTexts
  /\ xpc = "call"
  /\ phone_numbers = <<>>
  /\ normalized = <<>>
  /\ content = PhoneCompact \o <<"\n">> \o text
  /\ file_path = "" /\ chunk_size = 0
  /\ progress_callback = FALSE /\ op = "none" /\ fpc = "call"
  /\ total_lines = 0 /\ processed_lines = 0 /\ line_num = 0
  /\ chunk_lines = <<>> /\ results = <<>> /\ progress_calls = <<>>
  /\ returned = <<>> /\ raised = <<>> /\ failure = "none"
  /\ GuiIdle
  /\ RegIdle

NextIdent ==
  \/ ExtractPhoneNumbers
  \/ ProcessText

SpecIdent == InitIdent /\ [][NextIdent]_vars

(***************************************************************************)
(* The registry: BankRegistry(csv_file), then calls of its methods.        *)
(***************************************************************************)
InitRegistry ==
  /\ banks = <<>>
  /\ iban_prefix = <<>>
  /\ ExtractIdle
  /\ FileIdle
  /\ GuiIdle
  /\ csv_file \in CsvFiles
  /\ rpc = "construct"
  /\ rop = "none" /\ rarg = <<>> /\ rresult = <<>> /\ calls = 0

\* BankRegistry(csv_file).
Construct ==
  /\ rpc = "construct"
  /\ LET r == BankRegistryInit(csv_file)
     IN  /\ banks' = r.banks
         /\ rpc' = IF r.ok THEN "ready" ELSE "failed"
  /\ UNCHANGED <<iban_prefix, text, xpc, phone_numbers, normalized, fvars,
                 gvars, csv_file, rop, rarg, rresult, calls>>

\* A call of a method with the argument arg that returns result.
RegistryCall(method, arg, result) ==
  /\ rpc = "ready"
  /\ calls < MaxCalls
  /\ rop' = method /\ rarg' = arg /\ rresult' = result
  /\ calls' = calls + 1
  /\ banks' = banks_after_call(banks, method, arg)
  /\ UNCHANGED <<iban_prefix, text, xpc, phone_numbers, normalized, fvars,
                 gvars, csv_file, rpc>>

SearchBanks(term) == RegistryCall("search_banks", term, search_banks(banks, term))

GetMajorBanks == RegistryCall("get_major_banks", <<>>, get_major_banks(banks))

GetAllBanks == RegistryCall("get_all_banks", <<>>, get_all_banks(banks))

GetBankInfo(p) == RegistryCall("get_bank_info", p, get_bank_info(banks, p))

GetEntityCode(p) == RegistryCall("get_entity_code", p, get_entity_code(banks, p))

\* The arguments of a call of the extractor.
ScanArgs(p, txt, size) == [iban_prefix |-> p, text |-> txt, chunk_size |-> size]

ExtractCall(p, txt) ==
  RegistryCall("extract_phone_numbers", ScanArgs(p, txt, 0),
               extract_phone_numbers(banks, p, txt))

ProcessTextCall(p, txt) ==
  RegistryCall("process_text", ScanArgs(p, txt, 0), process_text(banks, p, txt))

ProcessFileCall(p, txt) ==
  RegistryCall("process_file", ScanArgs(p, txt, 0), process_file(banks, p, txt))

ProcessLargeFileCall(p, txt, size) ==
  RegistryCall("process_large_file", ScanArgs(p, txt, size),
               process_large_file(banks, p, txt, size))

NextRegistry ==
  \/ Construct
  \/ \E term \in SearchTerms : SearchBanks(term)
  \/ GetMajorBanks
  \/ GetAllBanks
  \/ \E p \in BankIds : GetBankInfo(p)
  \/ \E p \in BankIds : GetEntityCode(p)
  \/ \E p \in BankIds, txt \in CallTexts : ExtractCall(p, txt)
  \/ \E p \in BankIds, txt \in CallContents : ProcessTextCall(p, txt)
  \/ \E p \in BankIds, txt \in CallContents : ProcessFileCall(p, txt)
  \/ \E p \in BankIds, txt \in CallContents, size \in 1..MaxChunk :
       ProcessLargeFileCall(p, txt, size)

SpecRegistry == InitRegistry /\ [][NextRegistry]_vars

(***************************************************************************)
(* validate_iban_format on one string.                                     *)
(***************************************************************************)
InitValidate ==
  /\ banks = <<>>
  /\ iban_prefix = <<>>
  /\ ExtractIdle
  /\ FileIdle
  /\ GuiIdle
  /\ csv_file = NoCsv
  /\ rpc = "validate"
  /\ rop = "none" /\ rarg \in ValidateInputs /\ rresult = <<>> /\ calls = 0

\* validate_iban_format(rarg).
ValidateIbanFormat ==
  /\ rpc = "validate" /\ rop = "none"
  /\ rop' = "validate_iban_format"
  /\ rresult' = validate_iban_format(rarg)
  /\ calls' = calls + 1
  /\ UNCHANGED <<xvars, fvars, gvars, csv_file, rpc, rarg>>

\* extract_entity_code_from_iban(rarg).
ExtractEntityCodeFromIban ==
  /\ rpc = "validate" /\ rop = "none"
  /\ rop' = "extract_entity_code_from_iban"
  /\ rresult' = extract_entity_code_from_iban(rarg)
  /\ calls' = calls + 1
  /\ UNCHANGED <<xvars, fvars, gvars, csv_file, rpc, rarg>>

NextValidate ==
  \/ ValidateIbanFormat
  \/ ExtractEntityCodeFromIban

SpecValidate == InitValidate /\ [][NextValidate]_vars

(***************************************************************************)
(* estimate_file_size on one readable file.  rresult holds the locals      *)
(* file_size and line_count until the call ends.                           *)
(***************************************************************************)
InitEstimate ==
  /\ banks = <<>>
  /\ iban_prefix = <<>>
  /\ ExtractIdle
  /\ FileIdle
  /\ GuiIdle
  /\ csv_file = NoCsv
  /\ rpc = "estimate"
  /\ rop = "none" /\ rarg \in EstimatedFiles /\ rresult = <<>> /\ calls = 0

\* file_size = os.path.getsize(file_path); line_count = 0.
EstimateGetSize ==
  /\ rpc = "estimate" /\ rop = "none"
  /\ rop' = "estimate_file_size"
  /\ rpc' = "sized"
  /\ rresult' = [file_size |-> getsize(rarg), line_count |-> 0]
  /\ calls' = calls + 1
  /\ UNCHANGED <<xvars, fvars, gvars, csv_file, rarg>>

\* The with block: the lines are counted and the file is closed.
EstimateCount ==
  /\ rpc = "sized"
  /\ rpc' = "counted"
  /\ rresult' = [rresult EXCEPT !.line_count = CountedLines(rarg)]
  /\ UNCHANGED <<xvars, fvars, gvars, csv_file, rarg, rop, calls>>

\* The estimate and the return, or the error.
EstimateFinish ==
  /\ rpc = "counted"
  /\ LET out == AfterCounting(rresult.file_size, rresult.line_count) IN
     /\ rresult' = out
     /\ rpc' = IF "raised" \in DOMAIN out THEN "raised" ELSE "returned"
  /\ UNCHANGED <<xvars, fvars, gvars, csv_file, rarg, rop, calls>>

NextEstimate ==
  \/ EstimateGetSize
  \/ EstimateCount
  \/ EstimateFinish

SpecEstimate == InitEstimate /\ [][NextEstimate]_vars

(***************************************************************************)
(* The window: SpanishBankGUI with its two worker threads.  A signal a     *)
(* worker emits is queued for the GUI thread, which runs the connected     *)
(* slot from its event loop: the main loop ("idle") or the loop of a modal *)
(* QMessageBox ("confirm", "info").  QThread.wait blocks the GUI thread.   *)
(***************************************************************************)
InitGui ==
  /\ banks = load_banks(GuiRegistry)
  /\ iban_prefix = KeyCaixa
  /\ ExtractIdle
  /\ FileIdle
  /\ GuiStart
  /\ gpc = "idle"
  /\ RegIdle

\* QThread.isRunning(): started and run() has not returned.
isRunning(r) ==
  r # 0 /\ workers[r].state \in {"running", "read", "emitted"}

\* The number of the next QThread object to create: workers are numbered in
\* the order of their creation.
Fresh ==
  {r \in 1..MaxRuns :
     workers[r].kind = "none" /\ \A q \in 1..(r - 1) : workers[q].kind # "none"}

\* Rebinding an attribute drops the window's reference to the QThread it
\* held.  Qt aborts the process when a QThread is destroyed while it runs;
\* whether the object is destroyed then depends on the references the running
\* run() still holds, so the process aborts or goes on with the old thread
\* running unreferenced.
DestroyedRunning(r) == isRunning(r)

AfterRebinding(r) ==
  IF DestroyedRunning(r) THEN {"crashed", gpc} ELSE {gpc}

Signal(sig, r) == [sig |-> sig, run |-> r]

\* The main window takes user input.
Interactive == gpc = "idle"

\* Queued signals are delivered by the main loop and by a dialog's loop.
InEventLoop == gpc \in {"idle", "confirm", "info"}

\* on_bank_selected(index): the combo box entry is a bank, or the
\* placeholder at index 0.
on_bank_selected(choice) ==
  /\ Interactive
  /\ LET normalized_prefix == normalize_iban_prefix(choice)
     IN  IF choice # None /\ HasBank(banks, normalized_prefix)
           THEN /\ process_button' = TRUE
                /\ selected_bank_prefix' = normalized_prefix
           ELSE /\ process_button' = FALSE
                /\ selected_bank_prefix' = None
  /\ UNCHANGED <<xvars, rvars, fvars, input_text, results_table, file_button,
                 cancel_button, progress_bar, workers, file_loader,
                 processing_thread, queue, gpc, cancel_requested>>

\* select_bank_from_table(iban_prefix), on a double click in the table of
\* banks: the combo box entry of the bank, if there is one, is selected as in
\* on_bank_selected, and a bank of the registry is selected in any case.
select_bank_from_table(choice) ==
  /\ Interactive
  /\ LET normalized_prefix == normalize_iban_prefix(choice)
     IN  IF HasBank(banks, normalized_prefix)
           THEN /\ process_button' = TRUE
                /\ selected_bank_prefix' = normalized_prefix
           ELSE UNCHANGED <<process_button, selected_bank_prefix>>
  /\ UNCHANGED <<xvars, rvars, fvars, input_text, results_table, file_button,
                 cancel_button, progress_bar, workers, file_loader,
                 processing_thread, queue, gpc, cancel_requested>>

\* The user types in, pastes into or clears the input area.
EditInput(t) ==
  /\ Interactive
  /\ input_text' = t
  /\ UNCHANGED <<xvars, rvars, fvars, results_table, selected_bank_prefix,
                 process_button, file_button, cancel_button, progress_bar,
                 workers, file_loader, processing_thread, queue, gpc,
                 cancel_requested>>

\* load_file() with a file picked: _start_async_file_loading(file_name).
start_async_file_loading(f, r) ==
  /\ Interactive
  /\ file_button
  /\ r \in Fresh
  /\ progress_bar' = TRUE
  /\ process_button' = FALSE
  /\ file_button' = FALSE
  /\ cancel_button' = TRUE
  /\ file_loader' = r
  /\ workers' = [workers EXCEPT ![r] =
                   [NoWorker EXCEPT !.kind = "loader", !.state = "running",
                                    !.file = f]]
  /\ gpc' \in AfterRebinding(file_loader)
  /\ UNCHANGED <<xvars, rvars, fvars, input_text, results_table,
                 selected_bank_prefix, processing_thread, queue,
                 cancel_requested>>

\* display_results(results): the table shows one row per record.
display_results(rs) == results_table' = rs

\* process_input() when it warns and returns: no bank, or a blank text.
process_input_warns ==
  /\ Interactive
  /\ process_button
  /\ \/ selected_bank_prefix = None
     \/ Strip(input_text.content) = <<>>
  /\ UNCHANGED vars

\* process_input() -> _process_small_dataset(iban_prefix, text).
process_small_dataset ==
  /\ Interactive
  /\ process_button
  /\ selected_bank_prefix # None
  /\ Strip(input_text.content) # <<>>
  /\ ~(input_text.length > AsyncThresholdChars)
  /\ display_results(process_text(banks, selected_bank_prefix,
                                  input_text.content))
  /\ UNCHANGED <<xvars, rvars, fvars, input_text, selected_bank_prefix,
                 process_button, file_button, cancel_button, progress_bar,
                 workers, file_loader, processing_thread, queue, gpc,
                 cancel_requested>>

\* process_input() -> _process_large_dataset(iban_prefix, text).
process_large_dataset(r) ==
  /\ Interactive
  /\ process_button
  /\ selected_bank_prefix # None
  /\ Strip(input_text.content) # <<>>
  /\ input_text.length > AsyncThresholdChars
  /\ r \in Fresh
  /\ progress_bar' = TRUE
  /\ process_button' = FALSE
  /\ file_button' = FALSE
  /\ cancel_button' = TRUE
  /\ processing_thread' = r
  /\ workers' = [workers EXCEPT ![r] =
                   [NoWorker EXCEPT !.kind = "processing",
                                    !.state = "running",
                                    !.txt = input_text,
                                    !.prefix = selected_bank_prefix]]
  /\ gpc' \in AfterRebinding(processing_thread)
  /\ UNCHANGED <<xvars, rvars, fvars, input_text, results_table,
                 selected_bank_prefix, file_loader, queue, cancel_requested>>

\* Every variable but workers and queue, which a worker thread writes.
GuiThreadVars ==
  <<input_text, results_table, selected_bank_prefix, process_button,
    file_button, cancel_button, progress_bar, file_loader,
    processing_thread, gpc, cancel_requested>>

Alive == gpc \notin {"off", "crashed"}

\* FileLoaderThread._read_text_file, one step: the whole read of a file of at
\* most ChunkedReadBytes; else one turn of the chunk loop, which looks at
\* isInterruptionRequested() before each read and ends at the empty chunk.
LoaderRead(r) ==
  /\ Alive
  /\ workers[r].kind = "loader" /\ workers[r].state = "running"
  /\ LET w == workers[r]
     IN  workers' = [workers EXCEPT ![r] =
           IF ~(w.file.size > ChunkedReadBytes)
             THEN [w EXCEPT !.content = w.file.text, !.state = "read"]
           ELSE IF w.interrupt
             THEN [w EXCEPT !.content = EmptyText, !.state = "read"]
           ELSE IF w.pos < MaxReadChunks
             THEN [w EXCEPT !.pos = w.pos + 1]
           ELSE [w EXCEPT !.content = w.file.text, !.state = "read"]]
  /\ UNCHANGED <<xvars, rvars, fvars, GuiThreadVars, queue>>

\* FileLoaderThread.run after the read returned: file_loaded.emit(content).
LoaderEmit(r) ==
  /\ Alive
  /\ workers[r].kind = "loader" /\ workers[r].state = "read"
  /\ queue' = Append(queue, Signal("file_loaded", r))
  /\ workers' = [workers EXCEPT ![r].state = "emitted"]
  /\ UNCHANGED <<xvars, rvars, fvars, GuiThreadVars>>

\* FileLoaderThread.run when the read raises: error_occurred.emit(str(e)).
LoaderFails(r) ==
  /\ Alive
  /\ workers[r].kind = "loader" /\ workers[r].state = "running"
  /\ queue' = Append(queue, Signal("file_error", r))
  /\ workers' = [workers EXCEPT ![r].state = "emitted"]
  /\ UNCHANGED <<xvars, rvars, fvars, GuiThreadVars>>

\* The lines ProcessingThread.run iterates over.
ThreadLines(r) == SplitLines(workers[r].txt.content)

\* A run() that numbers the lines as enumerate does, from 0.
ScanLineFromZero(r) ==
  /\ Alive
  /\ workers[r].kind = "processing" /\ workers[r].state = "running"
  /\ workers[r].pos < Len(ThreadLines(r))
  /\ LET w == workers[r]
         i == w.pos
         line == Strip(ThreadLines(r)[i + 1])
         phones == IF line = <<>> THEN <<>>
                   ELSE extract_phone_numbers(banks, w.prefix, line)
     IN  workers' = [workers EXCEPT ![r] =
           IF w.interrupt
             THEN [w EXCEPT !.state = "finished"]
           ELSE [w EXCEPT !.pos = i + 1,
                          !.results = IF phones = <<>> THEN w.results
                                      ELSE Append(w.results,
                                             MatchLine(i, line, phones))]]
  /\ UNCHANGED <<xvars, rvars, fvars, GuiThreadVars, queue>>

\* ProcessingThread.run, one turn of the loop over the lines: return without
\* emitting when interruption was requested, else scan the line.
ScanLine(r) ==
  /\ Alive
  /\ workers[r].kind = "processing" /\ workers[r].state = "running"
  /\ workers[r].pos < Len(ThreadLines(r))
  /\ LET w == workers[r]
         i == w.pos
         line == Strip(ThreadLines(r)[i + 1])
         phones == IF line = <<>> THEN <<>>
                   ELSE extract_phone_numbers(banks, w.prefix, line)
     IN  workers' = [workers EXCEPT ![r] =
           IF w.interrupt
             THEN [w EXCEPT !.state = "finished"]
           ELSE [w EXCEPT !.pos = i + 1,
                          !.results = IF phones = <<>> THEN w.results
                                      ELSE Append(w.results,
                                             MatchLine(i + 1, line, phones))]]
  /\ UNCHANGED <<xvars, rvars, fvars, GuiThreadVars, queue>>

\* ProcessingThread.run after the loop: processing_complete.emit(results).
ScanEmit(r) ==
  /\ Alive
  /\ workers[r].kind = "processing" /\ workers[r].state = "running"
  /\ workers[r].pos = Len(ThreadLines(r))
  /\ queue' = Append(queue, Signal("processing_complete", r))
  /\ workers' = [workers EXCEPT ![r].state = "emitted"]
  /\ UNCHANGED <<xvars, rvars, fvars, GuiThreadVars>>

\* run() returns: the thread is no longer running.
WorkerReturns(r) ==
  /\ Alive
  /\ workers[r].state = "emitted"
  /\ workers' = [workers EXCEPT ![r].state = "finished"]
  /\ UNCHANGED <<xvars, rvars, fvars, GuiThreadVars, queue>>

\* The oldest queued signal is one of worker r, and the GUI thread can run
\* its slot.
Delivers(sig, r) ==
  /\ InEventLoop
  /\ queue # <<>>
  /\ Head(queue) = Signal(sig, r)

\* on_file_loaded(content), the slot of file_loaded.
on_file_loaded(r) ==
  /\ Delivers("file_loaded", r)
  /\ queue' = Tail(queue)
  /\ input_text' = workers[r].content
  /\ progress_bar' = FALSE
  /\ process_button' = TRUE
  /\ file_button' = TRUE
  /\ cancel_button' = FALSE
  /\ results_table' = <<>>
  /\ UNCHANGED <<xvars, rvars, fvars, selected_bank_prefix, workers, file_loader,
                 processing_thread, gpc, cancel_requested>>

\* on_file_error(error_message), the slot of the loader's error_occurred.
on_file_error(r) ==
  /\ Delivers("file_error", r)
  /\ queue' = Tail(queue)
  /\ progress_bar' = FALSE
  /\ process_button' = FALSE
  /\ file_button' = TRUE
  /\ cancel_button' = FALSE
  /\ results_table' = <<>>
  /\ UNCHANGED <<xvars, rvars, fvars, input_text, selected_bank_prefix, workers,
                 file_loader, processing_thread, gpc, cancel_requested>>

\* on_processing_complete(results), the slot of processing_complete.
on_processing_complete(r) ==
  /\ Delivers("processing_complete", r)
  /\ queue' = Tail(queue)
  /\ display_results(workers[r].results)
  /\ progress_bar' = FALSE
  /\ process_button' = TRUE
  /\ file_button' = TRUE
  /\ cancel_button' = FALSE
  /\ UNCHANGED <<xvars, rvars, fvars, input_text, selected_bank_prefix, workers,
                 file_loader, processing_thread, gpc, cancel_requested>>

\* cancel_operation() up to its question: the "Confirm Cancel" dialog opens.
cancel_operation ==
  /\ Interactive
  /\ cancel_button
  /\ gpc' = "confirm"
  /\ UNCHANGED <<xvars, rvars, fvars, input_text, results_table,
                 selected_bank_prefix, process_button, file_button,
                 cancel_button, progress_bar, workers, file_loader,
                 processing_thread, queue, cancel_requested>>

\* The user answers No: cancel_operation returns.
CancelDeclined ==
  /\ gpc = "confirm"
  /\ gpc' = "idle"
  /\ UNCHANGED <<xvars, rvars, fvars, input_text, results_table,
                 selected_bank_prefix, process_button, file_button,
                 cancel_button, progress_bar, workers, file_loader,
                 processing_thread, queue, cancel_requested>>

\* thread.requestInterruption() on worker r.
requestInterruption(r) ==
  /\ workers' = [workers EXCEPT ![r].interrupt = TRUE,
                                ![r].requested_in = workers[r].state]
  /\ cancel_requested' = cancel_requested \cup {r}

\* cancel_operation() after its waits: the widgets are restored and the
\* "Operation Cancelled" box opens.
RestoreAfterCancel ==
  /\ progress_bar' = FALSE
  /\ process_button' = TRUE
  /\ file_button' = TRUE
  /\ cancel_button' = FALSE
  /\ gpc' = "info"

\* cancel_operation() from the processing thread's test on: interrupt it and
\* wait for it if it runs, else restore the widgets.
CancelProcessing ==
  IF isRunning(processing_thread)
    THEN /\ requestInterruption(processing_thread)
         /\ gpc' = "wait_scan"
         /\ UNCHANGED <<progress_bar, process_button, file_button,
                        cancel_button>>
    ELSE /\ RestoreAfterCancel
         /\ UNCHANGED <<workers, cancel_requested>>

\* The user answers Yes: the loader is interrupted and waited for if it
\* runs, else the processing thread is looked at.
CancelConfirmed ==
  /\ gpc = "confirm"
  /\ IF isRunning(file_loader)
       THEN /\ requestInterruption(file_loader)
            /\ gpc' = "wait_loader"
            /\ UNCHANGED <<progress_bar, process_button, file_button,
                           cancel_button>>
       ELSE CancelProcessing
  /\ UNCHANGED <<xvars, rvars, fvars, input_text, results_table,
                 selected_bank_prefix, file_loader, processing_thread,
                 queue>>

\* file_loader.wait(5000) returns: the loader finished, or 5 s went by.
LoaderWaitReturns ==
  /\ gpc = "wait_loader"
  /\ CancelProcessing
  /\ UNCHANGED <<xvars, rvars, fvars, input_text, results_table,
                 selected_bank_prefix, file_loader, processing_thread,
                 queue>>

\* processing_thread.wait(5000) returns, likewise.
ProcessingWaitReturns ==
  /\ gpc = "wait_scan"
  /\ RestoreAfterCancel
  /\ UNCHANGED <<xvars, rvars, fvars, input_text, results_table,
                 selected_bank_prefix, workers, file_loader,
                 processing_thread, queue, cancel_requested>>

\* The user closes the "Operation Cancelled" box: cancel_operation returns.
CancelReturns ==
  /\ gpc = "info"
  /\ gpc' = "idle"
  /\ UNCHANGED <<xvars, rvars, fvars, input_text, results_table,
                 selected_bank_prefix, process_button, file_button,
                 cancel_button, progress_bar, workers, file_loader,
                 processing_thread, queue, cancel_requested>>

NextGui ==
  \/ \E choice \in {KeyCaixa, None} : on_bank_selected(choice)
  \/ \E choice \in {KeyCaixa} : select_bank_from_table(choice)
  \/ \E t \in GuiTexts : EditInput(t)
  \/ \E f \in GuiFiles, r \in 1..MaxRuns : start_async_file_loading(f, r)
  \/ process_input_warns
  \/ process_small_dataset
  \/ \E r \in 1..MaxRuns : process_large_dataset(r)
  \/ \E r \in 1..MaxRuns : LoaderRead(r)
  \/ \E r \in 1..MaxRuns : LoaderEmit(r)
  \/ \E r \in 1..MaxRuns : LoaderFails(r)
  \/ \E r \in 1..MaxRuns : ScanLine(r)
  \/ \E r \in 1..MaxRuns : ScanEmit(r)
  \/ \E r \in 1..MaxRuns : WorkerReturns(r)
  \/ \E r \in 1..MaxRuns : on_file_loaded(r)
  \/ \E r \in 1..MaxRuns : on_file_error(r)
  \/ \E r \in 1..MaxRuns : on_processing_complete(r)
  \/ cancel_operation
  \/ CancelDeclined
  \/ CancelConfirmed
  \/ LoaderWaitReturns
  \/ ProcessingWaitReturns
  \/ CancelReturns

SpecGui == InitGui /\ [][NextGui]_vars

\* The two scan paths of process_input alone: no file is loaded and nothing
\* is cancelled.
NextScan ==
  \/ \E choice \in {KeyCaixa, None} : on_bank_selected(choice)
  \/ \E t \in GuiTexts : EditInput(t)
  \/ process_input_warns
  \/ process_small_dataset
  \/ \E r \in 1..MaxRuns : process_large_dataset(r)
  \/ \E r \in 1..MaxRuns : ScanLine(r)
  \/ \E r \in 1..MaxRuns : ScanEmit(r)
  \/ \E r \in 1..MaxRuns : WorkerReturns(r)
  \/ \E r \in 1..MaxRuns : on_processing_complete(r)

SpecScan == InitGui /\ [][NextScan]_vars

\* The GUI thread runs the slot of the oldest queued signal.
DeliverSignal ==
  \E r \in 1..MaxRuns :
    on_file_loaded(r) \/ on_file_error(r) \/ on_processing_complete(r)

\* QThread.wait(5000) returns.
WaitReturns == LoaderWaitReturns \/ ProcessingWaitReturns

\* A queued signal is delivered if the GUI thread is in an event loop again
\* and again, and wait(5000) returns after 5 s at most.
GuiFairness ==
  /\ SF_vars(DeliverSignal)
  /\ WF_vars(WaitReturns)

SpecGuiLive == InitGui /\ [][NextGui]_vars /\ GuiFairness


(***************************************************************************)
(* Properties of extract_phone_numbers.                                    *)
(***************************************************************************)
\* s is 4 digits.
FourDigits(s) == Len(s) = 4 /\ \A i \in 1..4 : s[i] \in Digits

\* s is n groups of 4 digits, each after at most one whitespace character.
RECURSIVE IbanGroups(_, _)
IbanGroups(s, n) ==
  IF n = 0 THEN s = <<>>
  ELSE \/ Len(s) >= 4 /\ FourDigits(SubSeq(s, 1, 4))
          /\ IbanGroups(SubSeq(s, 5, Len(s)), n - 1)
       \/ Len(s) >= 5 /\ s[1] \in Spaces /\ FourDigits(SubSeq(s, 2, 5))
          /\ IbanGroups(SubSeq(s, 6, Len(s)), n - 1)

\* s has the shape of a Spanish IBAN: ES in either case, 2 check digits and 5
\* groups of 4 digits.
IbanShaped(s) ==
  /\ Len(s) >= 24
  /\ s[1] \in {"E", "e"} /\ s[2] \in {"S", "s"}
  /\ s[3] \in Digits /\ s[4] \in Digits
  /\ IbanGroups(SubSeq(s, 5, Len(s)), 5)

\* The characters at 0-based positions 4..7 of s without its spaces.
EntityCodeOf(s) == LET c == SelectSeq(s, LAMBDA x : x # " ") IN SubSeq(c, 5, 8)

\* t, its hyphens removed, holds an IBAN-shaped substring with entity code code.
HoldsIbanOf(t, code) ==
  LET u == SelectSeq(t, LAMBDA x : x # "-") IN
  \E p \in 1..Len(u) : \E e \in p..Len(u) :
     /\ e - p + 1 \in 24..29
     /\ IbanShaped(SubSeq(u, p, e))
     /\ EntityCodeOf(SubSeq(u, p, e)) = code

\* The entity code the registry gives for the normalized bank identifier.
TargetCode == get_entity_code(banks, normalize_iban_prefix(iban_prefix))

\* C1: extract_phone_numbers returns a non-empty list only if the text, its
\* hyphens removed, holds an IBAN-shaped substring whose entity code is the
\* one the registry gives for the normalized bank identifier; without such an
\* IBAN the result is empty even when the text holds phone numbers.
C1_OnlyWithMatchingIban ==
  xpc = "returned" =>
    /\ phone_numbers # <<>> => HoldsIbanOf(text, TargetCode)
    /\ ~HoldsIbanOf(text, TargetCode) => phone_numbers = <<>>

C1_Witness ==
  /\ xpc = "returned"
  /\ phone_numbers # <<>>
  /\ HoldsIbanOf(text, TargetCode)

\* A text with phone numbers and only another bank's IBAN yields nothing.
C1_WitnessOtherBank ==
  /\ xpc = "returned"
  /\ phone_numbers = <<>>
  /\ PhoneMatches(text) # <<>>
  /\ IbansInLine(text) # <<>>
  /\ TargetCode # None

\* C2 as stated: a bank identifier that is not a key of the registry yields
\* the empty list for every text.
C2_AbsentIdentifierYieldsEmpty ==
  (xpc = "returned" /\ ~HasBank(banks, iban_prefix)) => phone_numbers = <<>>

\* C2 as amended: a bank identifier whose normalized form is not a key of the
\* registry yields the empty list for every text.
C2_AbsentNormalizedYieldsEmpty ==
  (xpc = "returned" /\ ~HasBank(banks, normalize_iban_prefix(iban_prefix)))
    => phone_numbers = <<>>

C2_Witness ==
  /\ xpc = "returned"
  /\ ~HasBank(banks, normalize_iban_prefix(iban_prefix))
  /\ PhoneMatches(text) # <<>>
  /\ IbansInLine(text) # <<>>

\* The index of the first occurrence of x in the sequence m.
FirstIndex(m, x) == CHOOSE i \in 1..Len(m) : m[i] = x /\ \A j \in 1..(i - 1) : m[j] # x

\* C3: the returned list holds no string twice, holds exactly the strings of
\* the per-pattern match lists, and orders them by their first occurrence in
\* the concatenation of those lists (pattern order, then position in the text).
C3_DistinctInFirstOccurrenceOrder ==
  (xpc = "returned" /\ phone_numbers # <<>>) =>
    LET m == PhoneMatches(text) IN
    /\ \A i, j \in 1..Len(phone_numbers) :
         i # j => phone_numbers[i] # phone_numbers[j]
    /\ {phone_numbers[i] : i \in 1..Len(phone_numbers)} = {m[i] : i \in 1..Len(m)}
    /\ \A i, j \in 1..Len(phone_numbers) :
         i < j => FirstIndex(m, phone_numbers[i]) < FirstIndex(m, phone_numbers[j])

\* A number written twice on the line is returned once, at its first position.
C3_Witness ==
  /\ xpc = "returned"
  /\ Len(phone_numbers) >= 2
  /\ \E i, j \in 1..Len(PhoneMatches(text)) :
       /\ i < j
       /\ PhoneMatches(text)[i] = PhoneMatches(text)[j]
       /\ PhoneMatches(text)[i] = phone_numbers[1]

(***************************************************************************)
(* Properties of the scans.                                                *)
(***************************************************************************)
\* l without its leading and trailing whitespace: from its first to its last
\* character that is not whitespace.
Trimmed(l) ==
  LET nb == {i \in 1..Len(l) : l[i] \notin Spaces} IN
  IF nb = {} THEN <<>>
  ELSE SubSeq(l, CHOOSE i \in nb : \A j \in nb : i <= j,
                 CHOOSE i \in nb : \A j \in nb : j <= i)

\* The line is non-blank after trimming and extract_phone_numbers finds a
\* phone in it.
HasPhones(l) ==
  Trimmed(l) # <<>> /\ extract_phone_numbers(banks, iban_prefix, Trimmed(l)) # <<>>

\* C4: process_text emits one record for each line of text.split('\n') that is
\* non-blank after trimming and has a phone, and none for another line; the
\* line_number is the 1-based index of the line (blank lines count), the
\* records are in strictly increasing line_number order, text is the trimmed
\* line and phone_count is the length of phone_numbers.
C4_OneRecordPerMatchingLine ==
  (op = "process_text" /\ fpc = "returned") =>
    LET lines == SplitLines(content) IN
    /\ \A k \in 1..Len(returned) :
         LET r == returned[k] IN
         /\ r.line_number \in 1..Len(lines)
         /\ r.text = Trimmed(lines[r.line_number])
         /\ r.text # <<>>
         /\ r.phone_numbers = extract_phone_numbers(banks, iban_prefix, r.text)
         /\ r.phone_numbers # <<>>
         /\ r.phone_count = Len(r.phone_numbers)
    /\ \A k \in 2..Len(returned) :
         returned[k - 1].line_number < returned[k].line_number
    /\ \A i \in 1..Len(lines) :
         HasPhones(lines[i]) <=> \E k \in 1..Len(returned) : returned[k].line_number = i

\* A record of a padded line that follows a blank line or a line without IBAN.
C4_Witness ==
  /\ op = "process_text" /\ fpc = "returned"
  /\ \E k \in 1..Len(returned) :
       /\ returned[k].line_number > k
       /\ returned[k].text # SplitLines(content)[returned[k].line_number]

\* C5: process_large_file returns the sequence of records process_text returns
\* of the whole content, for every content and every chunk size >= 1.
C5_LargeFileEqualsProcessText ==
  (op = "process_large_file" /\ fpc = "returned") =>
    returned = process_text(banks, iban_prefix, content)

\* A record of a line beyond the first chunk, in a file that ends with a
\* partial chunk.
C5_Witness ==
  /\ op = "process_large_file" /\ fpc = "returned"
  /\ total_lines % chunk_size # 0
  /\ \E k \in 1..Len(returned) : returned[k].line_number > chunk_size

\* The number of lines of the file.
FileLineCount == Len(FileLines(content))

\* The records of process_text of the whole content up to line n.
RecordsUpTo(n) ==
  SelectSeq(process_text(banks, iban_prefix, content), LAMBDA r : r.line_number <= n)

\* C6: with a callback, every call is made after its batch was processed and
\* appended (the newest call of every state saw the records of all the lines
\* it reports; calls are only ever appended, so every call is checked in the
\* states it is the newest of), the lines-processed values strictly increase
\* and never exceed the total, the total is the line count of the file in
\* every call, and no division by zero occurs; at the return the callback has
\* been called ceil(N / chunk_size) times, the last call reports N lines and
\* 100 percent, and for an empty file it was never called.
C6_ProgressCalls ==
  (op = "process_large_file" /\ progress_callback) =>
    /\ \A k \in 1..Len(progress_calls) :
         LET c == progress_calls[k] IN
         /\ c.total_lines = FileLineCount
         /\ c.processed_lines <= c.total_lines
         /\ c.processed_lines <= line_num
         /\ k > 1 => progress_calls[k - 1].processed_lines < c.processed_lines
         /\ c.progress.den # 0
         /\ k = Len(progress_calls) => c.results = RecordsUpTo(c.processed_lines)
    /\ (failure = "none") => raised = <<>>
    /\ (fpc = "returned") =>
         /\ Len(progress_calls) = (FileLineCount + chunk_size - 1) \div chunk_size
         /\ FileLineCount = 0 => progress_calls = <<>>
         /\ FileLineCount > 0 =>
              LET c == progress_calls[Len(progress_calls)] IN
              /\ c.processed_lines = FileLineCount
              /\ c.progress.num = 100 * c.progress.den

\* Several calls, the last one for a partial chunk.
C6_Witness ==
  /\ op = "process_large_file" /\ progress_callback /\ fpc = "returned"
  /\ Len(progress_calls) >= 2
  /\ total_lines % chunk_size # 0
  /\ returned # <<>>

\* The callback is never called for an empty file.
C6_WitnessEmptyFile ==
  /\ op = "process_large_file" /\ progress_callback /\ fpc = "returned"
  /\ content = <<>>

\* C9: a read failure of process_file or process_large_file ends the call with
\* a single error that carries the file path and the cause, and nothing is
\* returned, whatever was collected before the failure.
C9_FailureRaisesOnce ==
  (failure # "none") =>
    /\ fpc = "raised"
    /\ returned = <<>>
    /\ Len(raised) = 1
    /\ raised[1].path = file_path
    /\ raised[1].cause = failure

\* A failure in the processing pass, after a batch gave records.
C9_Witness ==
  /\ op = "process_large_file" /\ failure # "none" /\ fpc = "raised"
  /\ results # <<>>
  /\ processed_lines > 0

\* The workers whose interruption was requested before they emitted their
\* result.
CancelledBeforeEmit ==
  {r \in cancel_requested : workers[r].requested_in \in {"running", "read"}}

\* C7: once requestInterruption was called on a processing thread that had
\* not emitted yet, no processing_complete of that thread is delivered:
\* on_processing_complete, and so display_results, never runs with the
\* results of the cancelled scan.
C7_NoResultsAfterCancel ==
  [][\A r \in CancelledBeforeEmit :
       ~(/\ Delivers("processing_complete", r)
         /\ queue' = Tail(queue))]_vars

\* C8: the delivery of file_loaded by a loader whose cancellation was
\* requested before it emitted leaves the input text area and the results
\* table as they were.
C8_CancelledLoadChangesNothing ==
  [][\A r \in CancelledBeforeEmit :
       (/\ Delivers("file_loaded", r)
        /\ queue' = Tail(queue))
       => UNCHANGED <<input_text, results_table>>]_vars

\* 'ES' followed by exactly 4 digits.
Canonical(s) == Len(s) = 6 /\ StartsWithES(s) /\ FourDigits(SliceFrom(s, 2))

\* C10: normalize_iban_prefix returns every identifier of the form 'ES' plus
\* 4 digits unchanged, and returns the same again when applied to its result.
C10_IdentityOnCanonical ==
  Canonical(iban_prefix) =>
    \A k \in 1..Len(normalized) : normalized[k] = iban_prefix

C10_Witness ==
  /\ Canonical(iban_prefix)
  /\ xpc = "twice"
  /\ Len(normalized) = 2
  /\ iban_prefix = <<"E", "S", "0", "7", "0", "7">>

\* The identifier without its spaces.
SpaceStripped == SelectSeq(iban_prefix, LAMBDA c : c # " ")

\* The characters of s at the 1-based positions 5..8 that s has.
Positions5To8(s) == [i \in 1..(IF Len(s) >= 8 THEN 4 ELSE Len(s) - 4) |-> s[4 + i]]

\* The case of C11: at least 6 characters without the spaces, and not
\* already 'ES' + 4 digits.
LongAndNotCanonical ==
  Len(SpaceStripped) >= 6 /\ ~Canonical(SpaceStripped)

\* C11 as stated: every identifier of at least 6 characters without its
\* spaces that is not 'ES' + 4 digits normalizes to 'ES' + the characters at
\* positions 5..8 of the space-stripped form.
C11_LongInputYieldsEntityCode ==
  (normalized # <<>> /\ LongAndNotCanonical)
    => normalized[1] = <<"E", "S">> \o Positions5To8(SpaceStripped)

\* C11 amended: that holds of the identifiers whose space-stripped form starts
\* with 'ES'; the others are returned space-stripped and otherwise unchanged.
C11_LongEsInputYieldsEntityCode ==
  (normalized # <<>> /\ LongAndNotCanonical)
    => normalized[1] = IF StartsWithES(SpaceStripped)
                         THEN <<"E", "S">> \o Positions5To8(SpaceStripped)
                         ELSE SpaceStripped

C11_Witness ==
  /\ iban_prefix = IbanSantanderSpaced
  /\ LongAndNotCanonical
  /\ normalized # <<>>
  /\ normalized[1] = KeySantander

\* s is a full Spanish IBAN: 'ES', 2 check digits and 5 groups of 4 digits,
\* each group after at most one space.
SpanishIban(s) ==
  /\ StartsWithES(s)
  /\ IbanShaped(s)
  /\ \A i \in 1..Len(s) : s[i] \in Digits \cup {"E", "S", " "}

\* 'ES' + the entity code of the IBAN s.
KeyOfIban(s) == <<"E", "S">> \o EntityCodeOf(s)

\* C12: for a bank given by a full Spanish IBAN, with or without spaces,
\* extract_phone_numbers and process_text return what they return for
\* 'ES' + the IBAN's entity code.
C12_FullIbanSameAsKey ==
  SpanishIban(iban_prefix) =>
    /\ xpc = "returned" =>
         phone_numbers =
           extract_phone_numbers(banks, KeyOfIban(iban_prefix), text)
    /\ (op = "process_text" /\ fpc = "returned") =>
         returned = process_text(banks, KeyOfIban(iban_prefix), content)

C12_Witness ==
  /\ SpanishIban(iban_prefix)
  /\ " " \in {iban_prefix[i] : i \in 1..Len(iban_prefix)}
  /\ xpc = "returned" /\ phone_numbers # <<>>
  /\ op = "process_text" /\ fpc = "returned" /\ returned # <<>>

\* The digits of s, in order.
DigitsOf(s) == SelectSeq(s, LAMBDA c : c \in Digits)

\* The first digit of the national number the string p denotes: the first
\* digit of p, or the first after the 34 of a +34 prefix.
NationalFirstDigit(p) ==
  IF p[1] = "+" THEN DigitsOf(p)[3] ELSE DigitsOf(p)[1]

SameIgnoringCase(a, b) ==
  \/ a = b
  \/ \E k \in 1..26 : {a, b} = {UpperCase[k], LowerCase[k]}

\* name contains t, case-insensitively.
NameContains(name, t) ==
  \E p \in 0..(Len(name) - Len(t)) :
     \A j \in 1..Len(t) : SameIgnoringCase(name[p + j], t[j])

\* The places of the registry entries whose name contains t.
MatchingPlaces(t) == {i \in 1..Len(banks) : NameContains(banks[i].name, t)}

\* The k-th smallest element of the set of numbers I.
KthOf(I, k) == CHOOSE i \in I : Cardinality({j \in I : j <= i}) = k

\* C14: search_banks returns [] for a term that is blank or shorter than 2
\* characters once trimmed; else the pairs (iban_prefix, name) of the first
\* min(100, number of matches) entries, in registry order, whose name contains
\* the trimmed term case-insensitively.
C14_SearchBanks ==
  rop = "search_banks" =>
    LET t == Trimmed(rarg)
        I == MatchingPlaces(t)
        n == IF Cardinality(I) < 100 THEN Cardinality(I) ELSE 100
    IN  IF Len(t) < 2 THEN rresult = <<>>
        ELSE /\ Len(rresult) = n
             /\ \A k \in 1..n :
                  rresult[k] = <<banks[KthOf(I, k)].iban_prefix,
                                 banks[KthOf(I, k)].name>>

\* A search with more than 100 matches, of which the entry at the second
\* place of the registry is none.
C14_Witness ==
  /\ rop = "search_banks"
  /\ Len(Trimmed(rarg)) >= 2
  /\ Trimmed(rarg) # rarg
  /\ Cardinality(MatchingPlaces(Trimmed(rarg))) > 100
  /\ Len(rresult) = 100
  /\ rresult[2][1] = CodeOf(3)

\* A search for a term of one character once trimmed.
C14_WitnessShortTerm ==
  /\ rop = "search_banks"
  /\ rarg = <<" ", "a", " ">>
  /\ banks # <<>>
  /\ rresult = <<>>

\* The prefixes of the curated list of ten banks, in its order.
CuratedPrefixes ==
  << <<"E", "S", "0", "1", "8", "2">>, <<"E", "S", "0", "0", "4", "9">>,
     <<"E", "S", "2", "1", "0", "0">>, <<"E", "S", "0", "0", "8", "1">>,
     <<"E", "S", "0", "1", "2", "8">>, <<"E", "S", "0", "0", "0", "3">>,
     <<"E", "S", "0", "0", "6", "1">>, <<"E", "S", "0", "1", "8", "8">>,
     <<"E", "S", "0", "2", "2", "5">>, <<"E", "S", "0", "1", "9", "8">> >>

\* The places of the curated list whose prefix is a key of the registry.
PresentPlaces ==
  {i \in 1..10 : \E j \in 1..Len(banks) : banks[j].iban_prefix = CuratedPrefixes[i]}

\* C15: get_major_banks returns the entries of the curated list of ten whose
\* prefix is a key of the registry, each once and in curated order, and
\* nothing else.
C15_MajorBanks ==
  rop = "get_major_banks" =>
    /\ Len(rresult) = Cardinality(PresentPlaces)
    /\ \A k \in 1..Len(rresult) :
         /\ rresult[k][1] = CuratedPrefixes[KthOf(PresentPlaces, k)]
         /\ rresult[k] = major_banks[KthOf(PresentPlaces, k)]

\* The registry holds CaixaBank before Santander and no other curated bank;
\* the result has Santander first.
C15_Witness ==
  /\ rop = "get_major_banks"
  /\ Len(banks) = 2
  /\ banks[1].iban_prefix = KeyCaixa
  /\ Len(rresult) = 2
  /\ rresult[1][1] = KeySantander
  /\ rresult[2][1] = KeyCaixa

\* C16: once the registry is loaded, every key is 'ES' + 4 digits and every
\* record's entity_code is its key without the 2 characters of the country
\* code.
C16_KeysAreCanonical ==
  rpc = "ready" =>
    \A i \in 1..Len(banks) :
      /\ Canonical(banks[i].iban_prefix)
      /\ banks[i].entity_code = SubSeq(banks[i].iban_prefix, 3, 6)

\* C17: a CSV file whose header lacks a required column never yields a
\* registry, whatever its data rows: the construction fails.
C17_MissingColumnFails ==
  (csv_file.readable /\ ~(RequiredColumns \subseteq csv_file.header))
    => rpc \in {"construct", "failed"}


\* The registry as BankRegistry(csv_file) built it.
Constructed == BankRegistryInit(csv_file).banks

\* What the method returns for arg on the registry bs.
ResultOn(bs, method, arg) ==
  CASE method = "search_banks" -> search_banks(bs, arg)
    [] method = "get_major_banks" -> get_major_banks(bs)
    [] method = "get_all_banks" -> get_all_banks(bs)
    [] method = "get_bank_info" -> get_bank_info(bs, arg)
    [] method = "get_entity_code" -> get_entity_code(bs, arg)
    [] method = "extract_phone_numbers" ->
         extract_phone_numbers(bs, arg.iban_prefix, arg.text)
    [] method = "process_text" -> process_text(bs, arg.iban_prefix, arg.text)
    [] method = "process_file" -> process_file(bs, arg.iban_prefix, arg.text)
    [] method = "process_large_file" ->
         process_large_file(bs, arg.iban_prefix, arg.text, arg.chunk_size)

RECURSIVE SplitSpaces(_)
SplitSpaces(s) ==
  IF \A i \in 1..Len(s) : s[i] # " " THEN <<s>>
  ELSE LET i == CHOOSE j \in 1..Len(s) : s[j] = " " /\ \A h \in 1..(j - 1) : s[h] # " "
       IN  <<SubSeq(s, 1, i - 1)>> \o SplitSpaces(SubSeq(s, i + 1, Len(s)))

\* The number of characters of the first k pieces.
RECURSIVE LenUpTo(_, _)
LenUpTo(pieces, k) == IF k = 0 THEN 0 ELSE Len(pieces[k]) + LenUpTo(pieces, k - 1)

\* s is 'ES' and digits written in pieces with one space between two pieces.
SpacedDigits(s) ==
  /\ StartsWithES(s)
  /\ Len(s) > 2
  /\ \A i \in 3..Len(s) : s[i] \in Digits \cup {" "}
  /\ \A k \in 1..Len(SplitSpaces(s)) : SplitSpaces(s)[k] # <<>>

\* The pieces of s are 'ES' + 2 digits and five groups of 4 digits, some of
\* them possibly written together.
RightGroupLengths(s) ==
  /\ LenUpTo(SplitSpaces(s), Len(SplitSpaces(s))) = 24
  /\ \A k \in 1..Len(SplitSpaces(s)) : LenUpTo(SplitSpaces(s), k) % 4 = 0

\* 'ES', 2 digits and five groups of 4 digits, compact or with single spaces.
WellFormedIban(s) == SpacedDigits(s) /\ RightGroupLengths(s)

\* The country code of s: its first two characters that are not spaces.
CountryCode(s) == SubSeq(Remove(s, " "), 1, Min(2, Len(Remove(s, " "))))

\* C19: validate_iban_format accepts 'ES' + 2 digits + the 4-digit groups
\* written compactly or with single spaces between groups, and rejects a
\* string whose country code is not 'ES' or whose digit groups, as the spaces
\* delimit them, have a wrong length.
C19_AcceptsShapeRejectsWrongGroups ==
  rop = "validate_iban_format" =>
    /\ WellFormedIban(rarg) => rresult = TRUE
    /\ CountryCode(rarg) # <<"E", "S">> => rresult = FALSE
    /\ (SpacedDigits(rarg) /\ ~RightGroupLengths(rarg)) => rresult = FALSE

\* The gaps between the groups of s hold at most one space each, the head and
\* the groups are whole, and nothing stands before or after.
SingleSpacedIban(s) ==
  /\ Len(s) >= 24
  /\ StartsWithES(s)
  /\ s[3] \in Digits /\ s[4] \in Digits
  /\ LET rest == SubSeq(s, 5, Len(s))
         pieces == SplitSpaces(rest)
     IN  /\ \A i \in 1..Len(rest) : rest[i] \in Digits \cup {" "}
         /\ LenUpTo(pieces, Len(pieces)) = 20
         /\ \A k \in 1..Len(pieces) :
              /\ LenUpTo(pieces, k) % 4 = 0
              /\ (k > 1 => pieces[k] # <<>>)

\* C20: validate_iban_format accepts only strings of the anchored shape with
\* at most one space between groups: a space inside the head or a group, two
\* spaces in a gap, or a character before or after make it reject.
C20_AnchoredSingleSpaces ==
  (rop = "validate_iban_format" /\ rresult = TRUE) => SingleSpacedIban(rarg)


\* C21: what extract_entity_code_from_iban returns is None or a string of
\* exactly 4 digits, and for a string that validate_iban_format accepts it is
\* the entity code extract_phone_numbers takes from the IBAN (clean_iban[4:8]
\* of the match without its spaces).
C21_EntityCodeIsFourDigits ==
  rop = "extract_entity_code_from_iban" =>
    /\ rresult # None => FourDigits(rresult)
    /\ validate_iban_format(rarg) => rresult = EntityCodeOf(rarg)


\* C22: estimate_file_size on a readable file of at most 10,000 lines returns,
\* and its estimated_lines is the number of lines of the file.
C22_SmallFileExactCount ==
  (rop = "estimate_file_size" /\ rarg.lines <= 10000
     /\ rpc \in {"returned", "raised"})
    => /\ rpc = "returned"
       /\ rresult.returned.estimated_lines = rarg.lines

\* The lines and the bytes read when the counting loop is left.
LinesSampled(f) == IF f.lines > 10000 THEN 10001 ELSE f.lines

BytesSampled(f) == LinesSampled(f) * f.line_bytes

\* C23: for a file of more than 10,000 lines estimated_lines is
\* (file size / bytes read) x lines sampled, and recommended_chunk_size is
\* estimated_lines / 100 clamped to 1000..5000.
C23_LargeFileExtrapolated ==
  (rop = "estimate_file_size" /\ rarg.lines > 10000
     /\ rpc \in {"returned", "raised"})
    => /\ rpc = "returned"
       /\ rresult.returned.estimated_lines =
            (rresult.returned.file_size_bytes * LinesSampled(rarg))
              \div BytesSampled(rarg)
       /\ rresult.returned.recommended_chunk_size =
            Min(5000, Max(1000, rresult.returned.estimated_lines \div 100))


\* The workers whose run() has not returned.
RunningWorkers == {r \in 1..MaxRuns : isRunning(r)}

\* C24: at most one background worker runs at any time.
C24_AtMostOneWorker == Alive => Cardinality(RunningWorkers) <= 1


\* The widgets as they are when no operation is under way.
UiRestored == ~progress_bar /\ ~cancel_button /\ file_button

\* No thread of the process runs: each run() returned, or the process is gone.
WorkersTerminated == \A r \in 1..MaxRuns : ~(Alive /\ isRunning(r))

CompletedScans ==
  {queue[k].run : k \in {j \in 1..Len(queue) : queue[j].sig = "processing_complete"}}

\* C26: the records a ProcessingThread that was not cancelled hands over with
\* processing_complete are the records process_text returns for the thread's
\* bank and text.
C26_AsyncScanEqualsProcessText ==
  \A r \in CompletedScans :
    ~workers[r].interrupt =>
      workers[r].results =
        process_text(banks, workers[r].prefix, workers[r].txt.content)

\* A finished scan of a text of more than 50,000 characters that found a
\* phone number on its second line.
C26_Witness ==
  \E r \in CompletedScans :
    /\ ~workers[r].interrupt
    /\ workers[r].txt.length > 50000
    /\ workers[r].results # <<>>
    /\ workers[r].results[1].line_number = 2


(***************************************************************************)
(* extract_phone_numbers on texts with landline numbers that begin with 8. *)
(***************************************************************************)
Phone8Compact ==
  <<"8", "1", "2", "3", "4", "5", "6", "7", "8">>

Phone8Grouped ==
  <<"8", "1", "2", " ", "3", "4", "5", " ", "6", "7", " ", "8", "9">>

Phone8Plus34 == <<"+", "3", "4", " ">> \o Phone8Compact

LandlinePool ==
  {IbanCaixaSpaced, PhoneCompact, PhoneGrouped, Phone8Compact, Phone8Grouped,
   Phone8Plus34}

LandlineTexts ==
  {Join(segs, sep) : segs \in SeqsUpTo(LandlinePool, MaxSegs), sep \in Separators}

InitLandline ==
  /\ banks \in {load_banks(rows) : rows \in RegistrySources}
  /\ iban_prefix \in BankIds
  /\ text \in LandlineTexts
  /\ xpc = "call"
  /\ phone_numbers = <<>>
  /\ normalized = <<>>
  /\ FileIdle
  /\ GuiIdle
  /\ RegIdle

NextLandline == ExtractPhoneNumbers

SpecLandline == InitLandline /\ [][NextLandline]_vars

(***************************************************************************)
(* Properties of the phone patterns.                                       *)
(***************************************************************************)
\* p begins with '+34'.
HasPlus34(p) == Len(p) >= 3 /\ SubSeq(p, 1, 3) = <<"+", "3", "4">>

\* p stands in t at position i.
OccursAt(p, t, i) ==
  i + Len(p) - 1 <= Len(t) /\ SubSeq(t, i, i + Len(p) - 1) = p

\* The character of t at position i is a digit.
DigitAt(t, i) == i \in 1..Len(t) /\ t[i] \in Digits

\* p is '+34', then spaces or none, then exactly nine digits.
CompactPlus34(p) ==
  /\ HasPlus34(p)
  /\ \E k \in 3..Len(p) :
       /\ \A j \in 4..k : p[j] \in Spaces
       /\ Len(p) - k = 9
       /\ \A j \in (k + 1)..Len(p) : p[j] \in Digits

\* C27: every returned string that starts with '+34' is '+34', optional
\* spaces and exactly nine digits, and stands somewhere in the text where no
\* further digit follows it (it is not the head of a longer digit run).
C27_Plus34HasExactlyNineDigits ==
  xpc = "returned" =>
    \A k \in 1..Len(phone_numbers) :
      LET p == phone_numbers[k] IN
      HasPlus34(p) =>
        /\ CompactPlus34(p)
        /\ \E i \in 1..Len(text) :
             OccursAt(p, text, i) /\ ~DigitAt(text, i + Len(p))

\* C28: every returned string that does not start with '+34' holds exactly
\* nine digits, the first of them 6, 7 or 8, and stands somewhere in the text
\* with no digit directly before or after it.
C28_BareNumberHasNineDigits ==
  xpc = "returned" =>
    \A k \in 1..Len(phone_numbers) :
      LET p == phone_numbers[k] IN
      ~HasPlus34(p) =>
        /\ Len(DigitsOf(p)) = 9
        /\ DigitsOf(p)[1] \in {"6", "7", "8"}
        /\ \E i \in 1..Len(text) :
             /\ OccursAt(p, text, i)
             /\ ~DigitAt(text, i - 1)
             /\ ~DigitAt(text, i + Len(p))


\* s with each lower-case letter replaced by its capital.
UpperCased(s) ==
  [i \in 1..Len(s) |->
     IF \E k \in 1..26 : LowerCase[k] = s[i]
       THEN UpperCase[CHOOSE k \in 1..26 : LowerCase[k] = s[i]]
       ELSE s[i]]

\* C29: a text whose IBANs are written with a lower-case country code yields
\* the phone numbers of the same text with the IBANs written in capitals.
C29_IbanCaseInsensitive ==
  xpc = "returned" =>
    phone_numbers = extract_phone_numbers(banks, iban_prefix, UpperCased(text))


\* The pattern list without its last two entries, the 8-only patterns.
first_four_patterns == SubSeq(phone_patterns, 1, 4)

\* extract_phone_numbers with the first four patterns only.
extract_with_first_four(bs, prefix, t) ==
  LET normalized_prefix == normalize_iban_prefix(prefix)
      entity_code == get_entity_code(bs, normalized_prefix)
  IN IF entity_code = None \/ entity_code = <<>> THEN <<>>
     ELSE IF ~FoundMatch(t, entity_code) THEN <<>>
     ELSE Unique(MatchesFrom(first_four_patterns, 1, t))

\* C30: the list extract_phone_numbers returns is the list it would return
\* with the first four patterns only: the 8-only patterns add no string.
C30_LandlinePatternsAddNothing ==
  xpc = "returned" =>
    phone_numbers = extract_with_first_four(banks, iban_prefix, text)

\* A qualifying text in which both 8-only patterns match.
C30_Witness ==
  /\ xpc = "returned"
  /\ phone_numbers # <<>>
  /\ FindAll(phone_patterns[5], text) # <<>>
  /\ FindAll(phone_patterns[6], text) # <<>>

====
